---- MODULE Spec2Model ----
(***************************************************************************)
(* paps (src/src/paps.c): paragraph segmentation, line list construction   *)
(* and the line flow of output_pages, as a state machine.                  *)
(*                                                                         *)
(* Units.  Pango lengths are integers in Pango units (PANGO_SCALE per      *)
(* point).  Margins, column sizes and header sizes are C ints in points.   *)
(* page_width / page_height are C doubles and are kept in hundredths of a  *)
(* point (59528 = 595.28pt).  lpi and cpi are doubles in the source; the   *)
(* model draws them from naturals, 0 meaning unset.  scale_x / scale_y and *)
(* the transform of the cairo context are exact fractions <<num, den>>.    *)
(*                                                                         *)
(* Text.  A buffer is a sequence of characters; a character is a Unicode   *)
(* code point, or BadByte, a byte that starts no UTF-8 sequence.           *)
(*                                                                         *)
(* Pango and cairo are libraries: what Pango answers for a layout (line    *)
(* count, extents) is an input of the action that asks; what cairo is told *)
(* to do is appended to the log out.                                       *)
(***************************************************************************)
EXTENDS Integers, Sequences, FiniteSets, TLC

(***************************************************************************)
(* Bounds of the model                                                     *)
(***************************************************************************)
\* longest enumerated file whose buffer, as read_file returns it, is handed
\* to split_text_into_paragraphs
MaxLen == 3
\* paragraphs after which a scan that does not advance is no longer followed
MaxParas == 4
\* longest enumerated line stream handed to output_pages
MaxLines == 3
\* largest number of columns
MaxColumns == 2
\* longest enumerated input file of main
MaxFileLen == 3

(***************************************************************************)
(* Program constants                                                       *)
(***************************************************************************)
PANGO_SCALE == 1024
\* main: int gutter_width = 40
GutterWidth == 40
\* main: int header_sep = 20
HeaderSep == 20
\* paper_sizes[PAPER_TYPE_A4], in hundredths of a point
PaperWidth == 59528
PaperHeight == 84189
\* main, CUPS branch: page_width = 612, page_height = 792, in hundredths of
\* a point
CupsPageWidth == 61200
CupsPageHeight == 79200
NL == 10
FF == 12
\* the byte 0xFF, which starts no UTF-8 sequence (as a buffer element it is
\* that raw byte, not the code point U+00FF)
BadByte == 255
\* (gunichar)-1, what g_utf8_get_char answers for such a byte
InvalidChar == -1

(***************************************************************************)
(* Characters                                                              *)
(***************************************************************************)
\* HIRAGANA LETTER A: two cells
WideChars == {12354}
\* COMBINING ACUTE ACCENT: no cell
ZeroWidthChars == {769}
\* the characters of the enumerated buffers: \n, \f, 'a', a wide character,
\* a zero-width character and an undecodable byte
Alphabet == {NL, FF, 97, BadByte} \cup WideChars \cup ZeroWidthChars

\* g_utf8_get_char: the code point at p, (gunichar)-1 for an invalid byte
g_utf8_get_char(c) == IF c = BadByte THEN InvalidChar ELSE c

\* a run of characters every one of which decodes
Decodable(t) == \A q \in 1..Len(t) : g_utf8_get_char(t[q]) # InvalidChar

\* wcwidth: cells of a wide character; -1 for non-printable ones
wcwidth(c) ==
  IF c = 0 THEN 0
  ELSE IF c < 32 \/ c = 127 THEN -1
  ELSE IF c \in ZeroWidthChars THEN 0
  ELSE IF c \in WideChars THEN 2
  ELSE 1

\* bytes of the UTF-8 encoding of one character
Utf8Len(c) ==
  IF c = BadByte \/ c < 128 THEN 1
  ELSE IF c < 2048 THEN 2
  ELSE IF c < 65536 THEN 3
  ELSE 4

RECURSIVE ByteLen(_)
\* byte length of a run of characters (a pointer difference, strlen)
ByteLen(s) == IF s = << >> THEN 0 ELSE Utf8Len(Head(s)) + ByteLen(Tail(s))

RECURSIVE Reverse(_)
\* g_list_reverse
Reverse(s) == IF s = << >> THEN << >> ELSE Append(Reverse(Tail(s)), Head(s))

\* g_list_prepend
Prepend(s, e) == <<e>> \o s

\* C conversion of a quotient to an integer type: truncation toward zero
TruncDiv(a, b) == IF a >= 0 THEN a \div b ELSE -((-a) \div b)

\* all sequences over S of length at most n
SeqsUpTo(S, n) == UNION {[1..k -> S] : k \in 0..n}

Max(a, b) == IF a > b THEN a ELSE b
Min(a, b) == IF a < b THEN a ELSE b

RECURSIVE Gcd(_, _)
Gcd(a, b) == IF b = 0 THEN a ELSE Gcd(b, a % b)

\* a double that is a quotient of two naturals, in lowest terms;
\* <<1, 0>> stands for the infinity a division by zero gives
Frac(n, d) == IF d = 0 THEN <<1, 0>>
              ELSE LET g == Gcd(n, d) IN IF g = 0 THEN <<0, 1>> ELSE <<n \div g, d \div g>>
FracMul(a, b) == Frac(a[1] * b[1], a[2] * b[2])

(***************************************************************************)
(* State                                                                   *)
(***************************************************************************)
VARIABLES
  pc,           \* position of the program
  file,         \* main: the characters of the input file
  page_layout,  \* page_layout_t
  need_header,  \* main: do_draw_header, output_pages: need_header
  header_line_height, \* Pango: logical height of the header's first line
  now,          \* time (NULL)
  text,         \* the buffer handed to split_text_into_paragraphs
  p,            \* split_text_into_paragraphs: scan position, 1-based
  last_para,    \* split_text_into_paragraphs: start of the open paragraph
  result,       \* split_text_into_paragraphs: list under construction
  paragraphs,   \* the list split_text_into_paragraphs returned
  par_list,     \* split_paragraphs_into_lines: index of the next paragraph
  line_list,    \* split_paragraphs_into_lines: list under construction
  max_height,   \* split_paragraphs_into_lines: tallest line so far
  pango_lines,  \* the list split_paragraphs_into_lines returned
  pos,          \* output_pages: index of the next line (the list cursor)
  column_idx,   \* output_pages
  column_y_pos, \* output_pages
  page_idx,     \* output_pages
  pango_column_height, \* output_pages
  prev_line_link, \* output_pages: index of the previous line, 0 for NULL
  out,          \* what cairo was told to draw, in call order
  ctm,          \* the scale of the cairo context's transform, <<sx, sy>>
  cairo_status, \* the status of the cairo context
  run,          \* which run of output_pages over the stream this is
  out1          \* the log of the first run, once a second one has begun

splitVars == <<text, p, last_para, result, paragraphs>>
lineVars == <<par_list, line_list, max_height, pango_lines>>
flowVars == <<pos, column_idx, column_y_pos, page_idx, pango_column_height,
             prev_line_link>>
cairoVars == <<out, ctm, cairo_status>>
envVars == <<file, need_header, header_line_height, now, run, out1>>

vars == <<pc, page_layout, splitVars, lineVars, flowVars, cairoVars, envVars>>

\* what split_text_into_paragraphs leaves alone
notSplit == <<lineVars, flowVars, cairoVars, envVars>>

(***************************************************************************)
(* main: the page layout                                                   *)
(***************************************************************************)
\* the option variables of main with their initial values
DefaultOptions ==
  [ num_columns |-> 1, top_margin |-> 36, bottom_margin |-> 36,
    left_margin |-> 36, right_margin |-> 36,
    do_draw_header |-> FALSE, do_wordwrap |-> TRUE, do_use_markup |-> FALSE,
    do_stretch_chars |-> FALSE, do_rtl |-> FALSE, do_justify |-> FALSE,
    lpi |-> 0, cpi |-> 0, cups_mode |-> FALSE ]

\* the option variables once the CUPS branch of main has set its defaults
\* (the program is called as texttopaps or CUPS_SERVER is set, no PPD file):
\* after it only the job's options page-left, page-right, page-top,
\* page-bottom, wrap, columns, cpi and lpi are read; the command line, that
\* is header, markup, direction and justification, is not
CupsDefaults ==
  [ DefaultOptions EXCEPT !.cups_mode = TRUE, !.lpi = 6, !.cpi = 10,
                          !.do_stretch_chars = TRUE ]

\* page_width and page_height when the page layout is filled in: the CUPS
\* page, or else the default paper
PageWidth(o) == IF o.cups_mode THEN CupsPageWidth ELSE PaperWidth
PageHeight(o) == IF o.cups_mode THEN CupsPageHeight ELSE PaperHeight

\* a variant that counts one gutter for every column
TotalGutterWidthPerColumn(o) == GutterWidth * o.num_columns

\* total_gutter_width
TotalGutterWidth(o) ==
  IF o.num_columns = 1 THEN 0 ELSE GutterWidth * (o.num_columns - 1)

\* page_layout.column_width: a double expression stored in an int
ColumnWidth(o) ==
  TruncDiv(PageWidth(o)
             - 100 * (o.left_margin + o.right_margin + TotalGutterWidth(o)),
           100 * o.num_columns)

\* page_layout.column_height: a double expression stored in an int
ColumnHeight(o) ==
  TruncDiv(PageHeight(o) - 100 * (o.top_margin
                                  + (IF o.do_draw_header THEN HeaderSep ELSE 0)
                                  + o.bottom_margin), 100)

\* page_layout as main has filled it in when it calls read_file; the CUPS
\* branch has set do_stretch_chars whatever it was
Geometry(o) ==
  [ page_width |-> PageWidth(o), page_height |-> PageHeight(o),
    num_columns |-> o.num_columns,
    left_margin |-> o.left_margin, right_margin |-> o.right_margin,
    gutter_width |-> GutterWidth,
    top_margin |-> o.top_margin, bottom_margin |-> o.bottom_margin,
    header_height |-> 0, footer_height |-> 0,
    do_wordwrap |-> o.do_wordwrap,
    scale_x |-> <<1, 1>>, scale_y |-> <<1, 1>>,
    header_sep |-> IF o.do_draw_header THEN HeaderSep ELSE 0,
    column_height |-> ColumnHeight(o),
    column_width |-> ColumnWidth(o),
    do_separation_line |-> TRUE,
    do_justify |-> o.do_justify,
    do_stretch_chars |-> o.cups_mode \/ o.do_stretch_chars,
    do_use_markup |-> o.do_use_markup,
    pango_dir |-> IF o.do_rtl THEN "RTL" ELSE "LTR",
    lpi |-> o.lpi, cpi |-> o.cpi, cups_mode |-> o.cups_mode ]

(***************************************************************************)
(* split_text_into_paragraphs                                              *)
(***************************************************************************)
\* a variant that keeps the closing delimiter in the paragraph
ParaTextThroughDelimiter == SubSeq(text, last_para, p)

\* the text between last_para and p
ParaText == SubSeq(text, last_para, p - 1)

RECURSIVE FloorLog2(_, _)
\* the binary exponent of the quotient a / b of two positive numbers: the k
\* with 2^k <= a / b < 2^(k+1)
FloorLog2(a, b) ==
  IF a >= 2 * b THEN 1 + FloorLog2(a, 2 * b)
  ELSE IF a < b THEN FloorLog2(2 * a, b) - 1
  ELSE 0

RECURSIVE Pow2(_)
Pow2(n) == IF n = 0 THEN 1 ELSE 2 * Pow2(n - 1)

\* w / 72.0 * c in double arithmetic, truncated, for whole numbers w >= 0
\* and c >= 0.  The quotient w / 72.0 is rounded to 53 bits: with kx its
\* exponent it lies m / 9 units in the last place above the double below it
\* (2^6 = 1 modulo 9), and is rounded down when m < 5.  When w * c / 72 is a
\* whole number q the product of the rounded quotient with c lies under q,
\* and it stays under q when rounded to 53 bits in its turn when the deficit
\* c * m / 9 units exceeds half the distance from q to the double below q.
CpiMagnitude(w, c) ==
  LET q == (w * c) \div 72
  IN  IF w = 0 \/ c = 0 \/ (w * c) % 72 # 0 THEN q
      ELSE LET kx == FloorLog2(w, 72)
               m  == (w * Pow2((49 - kx) % 6)) % 9
               j  == FloorLog2(q, 1)
               sh == j - kx - 1 - (IF q = Pow2(j) THEN 1 ELSE 0)
           IN  IF m = 0 \/ m >= 5 THEN q
               ELSE IF (IF sh >= 0 THEN c * m > 9 * Pow2(sh)
                                   ELSE c * m * Pow2(-sh) > 9)
                    THEN q - 1
                    ELSE q

\* column_width / 72.0 * cpi in double arithmetic, truncated toward zero,
\* for a whole number cpi.  Rounding to nearest is the same on either side
\* of zero, so the double of a negative column width is the negated double
\* of its magnitude, and so is its truncation.
CpiColumn(w, c) ==
  LET r == CpiMagnitude(IF w < 0 THEN -w ELSE w, IF c < 0 THEN -c ELSE c)
  IN  IF (w < 0) # (c < 0) THEN -r ELSE r

\* col = column_width / 72.0 * cpi, converted to gsize.  A quotient of -1 or
\* less has no defined conversion to an unsigned type: the build decides
\* between saturation to 0 and wrap-around modulo 2^64 (2^64 + q, written
\* here as 2^31 - 1 + q: a budget above every length).
CpiBudgets(pl) ==
  LET q == CpiColumn(pl.column_width, pl.cpi)
  IN  IF q >= 0 THEN {q} ELSE {0, 2147483647 + q}

RECURSIVE WrapLoop(_, _, _, _, _)
\* the for loop of the rewrap: the index i it stops at
WrapLoop(wtext, len, col, i, wwidth) ==
  IF i >= len THEN i
  ELSE LET w  == wcwidth(wtext[i + 1])
           ww == IF w >= 0 THEN wwidth + w ELSE wwidth
       IN  IF ww > col THEN i ELSE WrapLoop(wtext, len, col, i + 1, ww)

\* pango_layout_set_justify, pango_layout_set_alignment, para->height = 0
Paragraph(start, length, formfeed, ltext, width, wrap, markup) ==
  [ text |-> start, length |-> length, formfeed |-> formfeed, height |-> 0,
    layout |-> [ text |-> ltext, width |-> width, wrap |-> wrap,
                 markup |-> markup, justify |-> page_layout.do_justify,
                 alignment |-> IF page_layout.pango_dir = "LTR"
                               THEN "LEFT" ELSE "RIGHT" ] ]

\* a variant that never constrains the width of the layout
WrapWidthUnconstrained(paint_width) == -1

\* pango_layout_set_width: Pango keeps -1, no wrapping, for every negative
\* width it is given
LayoutWidth(width) == IF width < 0 THEN -1 ELSE width

\* the wrap settings of a layout that is not rewrapped by CPI
WrapWidth(paint_width) ==
  IF page_layout.do_wordwrap THEN LayoutWidth(paint_width * PANGO_SCALE)
  ELSE LayoutWidth(-1)
WrapMode == IF page_layout.do_wordwrap THEN "WORD_CHAR" ELSE "WORD"

\* the tail of one loop iteration: if (!wc) break; p = next;
LoopTail(wc, next) ==
  /\ pc' = IF wc = 0 THEN "split_end" ELSE "split"
  /\ p' = IF wc = 0 THEN p ELSE next

InLoop ==
  /\ pc = "split"
  /\ ~page_layout.do_use_markup
  /\ p <= Len(text)

\* wc of the iteration before the boundary test
Decoded == LET wc == g_utf8_get_char(text[p])
           IN  IF wc = InvalidChar THEN 0 ELSE wc

AtBoundary ==
  /\ InLoop
  /\ ~(g_utf8_get_char(text[p]) = InvalidChar /\ page_layout.cups_mode)
  /\ Decoded \in {0, NL, FF}
  /\ Len(result) < MaxParas

UseCpi == page_layout.cpi > 0 /\ page_layout.do_wordwrap

\* markup: the whole text is one paragraph; para->formfeed is never written
\* pango_layout_set_markup: a buffer Pango cannot parse, one that holds an
\* undecodable byte, leaves the layout without text
MarkupText(t) == IF Decodable(t) THEN t ELSE << >>

SplitMarkup ==
  /\ pc = "split"
  /\ page_layout.do_use_markup
  /\ \E ff \in BOOLEAN :
       result' = Prepend(result,
                   Paragraph(1, ByteLen(text), ff, MarkupText(text),
                             WrapWidth(page_layout.column_width), WrapMode, TRUE))
  /\ pc' = "split_end"
  /\ UNCHANGED <<page_layout, text, p, last_para, paragraphs>>
  /\ UNCHANGED notSplit

\* an invalid character in CUPS mode: p = next; continue
ScanInvalidCups ==
  /\ InLoop
  /\ g_utf8_get_char(text[p]) = InvalidChar
  /\ page_layout.cups_mode
  /\ p' = p + 1
  /\ UNCHANGED <<pc, page_layout, text, last_para, result, paragraphs>>
  /\ UNCHANGED notSplit

\* a character that ends no paragraph
ScanAdvance ==
  /\ InLoop
  /\ ~(g_utf8_get_char(text[p]) = InvalidChar /\ page_layout.cups_mode)
  /\ Decoded \notin {0, NL, FF}
  /\ p' = p + 1
  /\ UNCHANGED <<pc, page_layout, text, last_para, result, paragraphs>>
  /\ UNCHANGED notSplit

\* a boundary without CPI rewrap
EmitPlain ==
  /\ AtBoundary
  /\ ~UseCpi
  /\ result' = Prepend(result,
                 Paragraph(last_para, ByteLen(ParaText), Decoded = FF, ParaText,
                           WrapWidth(page_layout.column_width), WrapMode, FALSE))
  /\ last_para' = p + 1
  /\ LoopTail(Decoded, p + 1)
  /\ UNCHANGED <<page_layout, text, paragraphs>>
  /\ UNCHANGED notSplit

\* a boundary under CPI rewrap whose text g_utf8_to_ucs4 rejects: in CUPS
\* mode the paragraph is dropped and the scan goes on, otherwise exit (1)
EmitCpiFail ==
  /\ AtBoundary
  /\ UseCpi
  /\ BadByte \in {ParaText[k] : k \in 1..Len(ParaText)}
  /\ IF page_layout.cups_mode
     THEN pc' = pc /\ p' = p + 1
     ELSE pc' = "exit" /\ p' = p
  /\ UNCHANGED <<page_layout, text, last_para, result, paragraphs>>
  /\ UNCHANGED notSplit

\* a boundary under CPI rewrap, no more characters than the budget
EmitCpiFits ==
  /\ AtBoundary
  /\ UseCpi
  /\ BadByte \notin {ParaText[k] : k \in 1..Len(ParaText)}
  /\ \E col \in CpiBudgets(page_layout) :
       /\ ~(Len(ParaText) > col)
       /\ result' = Prepend(result,
                      Paragraph(last_para, ByteLen(ParaText), Decoded = FF,
                                ParaText, -1, "WORD", FALSE))
  /\ last_para' = p + 1
  /\ LoopTail(Decoded, p + 1)
  /\ UNCHANGED <<page_layout, text, paragraphs>>
  /\ UNCHANGED notSplit

\* what g_utf8_get_char (g_utf8_prev_char (next)) reads: the last character
\* kept, or, when none is kept, the character before the paragraph; before
\* the start of the buffer that is a read outside the buffer
PrevChars(next) ==
  IF next > 1 THEN {g_utf8_get_char(text[next - 1])} ELSE {0, FF, 97}

\* a boundary under CPI rewrap, more characters than the budget: the
\* paragraph is cut where the cells exceed the budget and the scan resumes
\* at the cut
EmitCpiWrap ==
  /\ AtBoundary
  /\ UseCpi
  /\ BadByte \notin {ParaText[k] : k \in 1..Len(ParaText)}
  /\ \E col \in CpiBudgets(page_layout) :
       /\ Len(ParaText) > col
       /\ LET i    == WrapLoop(ParaText, Len(ParaText), col, 0, 0)
              next == last_para + i
          IN  \E wc \in PrevChars(next) :
                /\ result' = Prepend(result,
                               Paragraph(last_para, i, wc = FF,
                                         SubSeq(ParaText, 1, i), -1, "WORD", FALSE))
                /\ last_para' = next
                /\ LoopTail(wc, next)
  /\ UNCHANGED <<page_layout, text, paragraphs>>
  /\ UNCHANGED notSplit

\* return g_list_reverse (result)
SplitReturn ==
  /\ \/ pc = "split_end"
     \/ pc = "split" /\ ~page_layout.do_use_markup /\ p > Len(text)
  /\ paragraphs' = Reverse(result)
  /\ pc' = "lines"
  /\ UNCHANGED <<page_layout, text, p, last_para, result>>
  /\ UNCHANGED notSplit

SplitNext ==
  \/ SplitMarkup
  \/ ScanInvalidCups
  \/ ScanAdvance
  \/ EmitPlain
  \/ EmitCpiFail
  \/ EmitCpiFits
  \/ EmitCpiWrap
  \/ SplitReturn


(***************************************************************************)
(* read_file                                                               *)
(***************************************************************************)
\* what read_file returns: the file with a new line added if it is missing.
\* For an empty file the test reads inbuf->str[-1], a byte outside the
\* string, so the new line may or may not be added.
ReadFileResults(f) ==
  IF f = << >> THEN {<< >>, <<NL>>}
  ELSE IF f[Len(f)] # NL THEN {Append(f, NL)} ELSE {f}

\* text = read_file (IN, cvh); the scan of split_text_into_paragraphs begins
ReadFile ==
  /\ pc = "read_file"
  /\ text' \in ReadFileResults(file)
  /\ p' = 1
  /\ last_para' = 1
  /\ result' = << >>
  /\ pc' = "split"
  /\ UNCHANGED <<page_layout, paragraphs, notSplit>>

(***************************************************************************)
(* split_paragraphs_into_lines                                             *)
(***************************************************************************)
\* the logical rectangles Pango reports for a line, in Pango units: one of
\* 20.5pt by 10.5pt and one of 60pt by 13.5pt, so that a width and both
\* heights fall between two whole points
LineExtents == { [width |-> 20992, height |-> 10752],
                 [width |-> 61440, height |-> 13824] }

RECURSIVE HardLines(_)
\* Pango starts a line after every new line of the text of a layout (only
\* the text of a markup layout holds any): the lines of a layout without a
\* width
HardLines(t) ==
  IF t = << >> THEN 1
  ELSE (IF Head(t) = NL THEN 1 ELSE 0) + HardLines(Tail(t))

RECURSIVE MostLines(_, _)
\* the most lines a layout with a width is wrapped into: one for every
\* character, and one for every stretch between new lines that is empty;
\* len is the length of the stretch so far
MostLines(t, len) ==
  IF t = << >> THEN Max(1, len)
  ELSE IF Head(t) = NL THEN Max(1, len) + MostLines(Tail(t), 0)
  ELSE MostLines(Tail(t), len + 1)

\* pango_layout_get_line_count: a layout without a width has the lines its
\* new lines give it, a single one when it holds none; a layout with a
\* width is wrapped by Pango into at least as many lines, never more than
\* one for every character
LineCounts(para) ==
  IF para.layout.width = -1 THEN {HardLines(para.layout.text)}
  ELSE HardLines(para.layout.text) .. MostLines(para.layout.text, 0)

\* a variant that flags the first line of a form-feed paragraph, not the last
LineFormfeedFirst(para, i, n) == para.formfeed /\ i = 0

\* line_link->formfeed of line i of the n lines of a paragraph
LineFormfeed(para, i, n) == para.formfeed /\ i = n - 1

\* LineLink: the Pango line is named by its paragraph and its index in it
LineLink(k, i, rect, ff) ==
  [ para |-> k, index |-> i, logical_rect |-> rect, formfeed |-> ff ]

RECURSIVE MaxHeightLast(_, _)
\* a variant that keeps the height of the last line, not the greatest one
MaxHeightLast(s, mh) ==
  IF s = << >> THEN mh
  ELSE MaxHeightLast(Tail(s), Head(s).logical_rect.height)

RECURSIVE MaxHeight(_, _)
\* if (logical_rect.height > max_height) max_height = logical_rect.height,
\* over the lines of s in order
MaxHeight(s, mh) ==
  IF s = << >> THEN mh
  ELSE MaxHeight(Tail(s), IF Head(s).logical_rect.height > mh
                          THEN Head(s).logical_rect.height ELSE mh)

\* page_layout->scale_y after the loop
StretchScale(pl, mh) ==
  IF pl.do_stretch_chars /\ pl.lpi > 0
  THEN Frac(72 * PANGO_SCALE, pl.lpi * mh)
  ELSE pl.scale_y

\* the lines of one paragraph: the body of the while loop
LinesOfParagraph ==
  /\ pc = "lines"
  /\ par_list <= Len(paragraphs)
  /\ LET para == paragraphs[par_list]
     IN  \E n \in LineCounts(para) :
           \E rect \in [1..n -> LineExtents] :
             LET new == [i \in 1..n |->
                           LineLink(par_list, i - 1, rect[i],
                                    LineFormfeed(para, i - 1, n))]
             IN  /\ line_list' = Reverse(new) \o line_list
                 /\ max_height' = MaxHeight(new, max_height)
  /\ par_list' = par_list + 1
  /\ UNCHANGED <<pc, page_layout, pango_lines, splitVars, flowVars, cairoVars, envVars>>

\* a variant that returns the list as it was built by the prepends
LinesAsBuilt(list) == list

\* return g_list_reverse(line_list)
ReturnedLines(list) == Reverse(list)

\* the end of split_paragraphs_into_lines: scale_y, g_list_reverse
LinesReturn ==
  /\ pc = "lines"
  /\ par_list > Len(paragraphs)
  /\ page_layout' = [page_layout EXCEPT !.scale_y = StretchScale(page_layout, max_height)]
  /\ pango_lines' = ReturnedLines(line_list)
  /\ pc' = "scale"
  /\ UNCHANGED <<par_list, line_list, max_height, splitVars, flowVars, cairoVars, envVars>>

\* cairo takes a scale whose two factors are finite and not zero
ValidScale(sx, sy) == sx[2] # 0 /\ sy[2] # 0 /\ sx[1] # 0 /\ sy[1] # 0

\* cairo_scale: any other scale is refused, the transform stays as it is
CairoScale(m, sx, sy) ==
  IF ValidScale(sx, sy) THEN <<FracMul(m[1], sx), FracMul(m[2], sy)>> ELSE m

\* cairo_scale: a refused scale puts the context into an error state that
\* it never leaves, and in which every later call on it has no effect
CairoScaleStatus(sx, sy) ==
  IF ValidScale(sx, sy) THEN "SUCCESS" ELSE "INVALID_MATRIX"

\* main: cairo_scale (cr, page_layout.scale_x, page_layout.scale_y)
MainScale ==
  /\ pc = "scale"
  /\ ctm' = CairoScale(ctm, page_layout.scale_x, page_layout.scale_y)
  /\ cairo_status' = CairoScaleStatus(page_layout.scale_x, page_layout.scale_y)
  /\ pc' = "output"
  /\ UNCHANGED <<page_layout, out, splitVars, lineVars, flowVars, envVars>>

(***************************************************************************)
(* output_pages and what it calls                                          *)
(***************************************************************************)
\* one call on the cairo context, with the transform and the status of the
\* context when it is made.  Coordinates are in hundredths of a point.
Event(op, page, column, x, y, line) ==
  [ op |-> op, page |-> page, column |-> column, x |-> x, y |-> y,
    line |-> line, ofs |-> 0, bot |-> 0, ctm |-> ctm,
    status |-> cairo_status, date |-> now ]

\* cairo_identity_matrix
IdentityMatrix ==
  IF cairo_status = "SUCCESS" THEN <<<<1, 1>>, <<1, 1>>>> ELSE ctm

\* start_page: cairo_identity_matrix
StartPage(page) == Event("start_page", page, 0, 0, 0, 0)

\* eject_page: cairo_show_page
EjectPage(page) == Event("show_page", page, 0, 0, 0, 0)

\* draw_page_header_line_to_page: height of the header band
HeaderHeight == TruncDiv(header_line_height \div PANGO_SCALE, 3)

\* draw_page_header_line_to_page: the three runs are shown at
\* y = top_margin + height; the header carries the date and the page number
DrawHeader(page) ==
  [ Event("header", page, 0, 100 * page_layout.left_margin,
          100 * (page_layout.top_margin + HeaderHeight), 0)
    EXCEPT !.ctm = IdentityMatrix ]

\* a variant of the page opening that draws the header without start_page
PageOpeningNoStart(page) ==
  IF need_header THEN <<DrawHeader(page)>> ELSE << >>

\* a variant of the page opening that draws the header on the first page only
PageOpeningHeaderOnce(page) ==
  <<StartPage(page)>>
    \o (IF need_header /\ page = 1 THEN <<DrawHeader(page)>> ELSE << >>)

\* what start_page and the header draw append for a new page
PageOpening(page) ==
  <<StartPage(page)>> \o (IF need_header THEN <<DrawHeader(page)>> ELSE << >>)

\* page_layout after the page opening: the header draw records header_height
LayoutAfterOpening ==
  IF need_header THEN [page_layout EXCEPT !.header_height = HeaderHeight]
  ELSE page_layout

\* a variant that draws the separation line at the left edge of the column
\* entered
SeparatorXAtColumnEdge(pl, column) ==
  LET c == IF pl.pango_dir = "RTL" THEN pl.num_columns - column ELSE column
  IN  100 * (pl.left_margin + c * (pl.column_width + pl.gutter_width))

\* a variant that uses the column index as it is handed over, unmirrored
SeparatorXUnmirrored(pl, column) ==
  LET total_gutter2 == IF column = 1 THEN pl.gutter_width
                       ELSE (2 * column - 1) * pl.gutter_width
  IN  100 * (pl.left_margin + pl.column_width * column) + 50 * total_gutter2

\* eject_column: x_pos of the separation line, y_top in y
SeparatorX(pl, column) ==
  LET c == IF pl.pango_dir = "RTL" THEN pl.num_columns - column ELSE column
      total_gutter2 == IF c = 1 THEN pl.gutter_width
                       ELSE (2 * c - 1) * pl.gutter_width
  IN  100 * (pl.left_margin + pl.column_width * c) + 50 * total_gutter2

SeparatorTop(pl) ==
  100 * (pl.top_margin + pl.header_height + TruncDiv(pl.header_sep, 2))

\* eject_column: y_bot
SeparatorBottom(pl) ==
  pl.page_height - 100 * (pl.bottom_margin + pl.footer_height)

\* eject_column: nothing is drawn without do_separation_line; the line goes
\* from (x_pos, y_top) to (x_pos, y_bot)
EjectColumn(column) ==
  IF page_layout.do_separation_line
  THEN << [ Event("separator", page_idx, column,
                  SeparatorX(page_layout, column), SeparatorTop(page_layout), 0)
            EXCEPT !.bot = SeparatorBottom(page_layout) ] >>
  ELSE << >>

\* a variant that takes the recorded header height off the column
PangoColumnHeightLessHeader ==
  (page_layout.column_height - page_layout.header_height) * PANGO_SCALE

\* page_layout->column_height * PANGO_SCALE
PangoColumnHeight == page_layout.column_height * PANGO_SCALE

\* a variant of the test that compares the column index before the increment
LastColumnBeforeIncrement == column_idx = page_layout.num_columns

\* the test made after column_idx++: the column left was the last one
LastColumn == column_idx + 1 = page_layout.num_columns

\* the line the loop is at
CurLine == pango_lines[pos]

\* a variant of the test that lets a line fill the column exactly
MustBreakStrict ==
  \/ column_y_pos + CurLine.logical_rect.height > pango_column_height
  \/ (prev_line_link # 0 /\ pango_lines[prev_line_link].formfeed)

\* a variant of the test that looks at the form feed only
MustBreakOnFormfeed ==
  prev_line_link # 0 /\ pango_lines[prev_line_link].formfeed

\* a variant of the test that compares the advance of the line, not its
\* natural height
MustBreakOnAdvance ==
  \/ column_y_pos
       + (IF page_layout.lpi > 0
          THEN (72 * PANGO_SCALE) \div page_layout.lpi
          ELSE CurLine.logical_rect.height) >= pango_column_height
  \/ (prev_line_link # 0 /\ pango_lines[prev_line_link].formfeed)

\* the test "Check if we need to move to next column"
MustBreak ==
  \/ column_y_pos + CurLine.logical_rect.height >= pango_column_height
  \/ (prev_line_link # 0 /\ pango_lines[prev_line_link].formfeed)

\* height: the advance of the line being placed
AdvanceHeight(line) ==
  IF page_layout.lpi > 0
  THEN (72 * PANGO_SCALE) \div page_layout.lpi
  ELSE line.logical_rect.height

\* draw_line_to_page: x_pos
LineX(pl, column, line) ==
  IF pl.pango_dir = "RTL"
  THEN pl.left_margin
       + (pl.num_columns - 1 - column) * (pl.column_width + pl.gutter_width)
       + pl.column_width - TruncDiv(line.logical_rect.width, PANGO_SCALE)
  ELSE pl.left_margin + column * (pl.column_width + pl.gutter_width)

\* draw_line_to_page: y_pos
LineY(pl, column_pos) ==
  pl.top_margin + pl.header_sep + TruncDiv(column_pos, PANGO_SCALE)

\* output_pages up to its loop: the locals, the first page and its header
OutputStart ==
  /\ pc = "output"
  /\ column_idx' = 0
  /\ column_y_pos' = 0
  /\ page_idx' = 1
  /\ pango_column_height' = PangoColumnHeight
  /\ prev_line_link' = 0
  /\ pos' = 1
  /\ ctm' = IdentityMatrix
  /\ UNCHANGED cairo_status
  /\ out' = out \o PageOpening(1)
  /\ page_layout' = LayoutAfterOpening
  /\ pc' = "loop"
  /\ UNCHANGED <<splitVars, lineVars, envVars>>

\* a variant that steps over a column
NextColumnSkipping == column_idx + 2

\* column_idx++
NextColumn == column_idx + 1

\* a forced break into the next column of the page
BreakColumn ==
  /\ pc = "loop"
  /\ pos <= Len(pango_lines)
  /\ MustBreak
  /\ ~LastColumn
  /\ column_idx' = NextColumn
  /\ column_y_pos' = 0
  /\ out' = out \o EjectColumn(NextColumn)
  /\ pc' = "draw"
  /\ UNCHANGED <<page_layout, ctm, cairo_status, pos, page_idx, pango_column_height,
                 prev_line_link, splitVars, lineVars, envVars>>

\* a forced break out of the last column: the next page is begun
BreakPage ==
  /\ pc = "loop"
  /\ pos <= Len(pango_lines)
  /\ MustBreak
  /\ LastColumn
  /\ column_idx' = 0
  /\ column_y_pos' = 0
  /\ page_idx' = page_idx + 1
  /\ ctm' = IdentityMatrix
  /\ UNCHANGED cairo_status
  /\ out' = out \o <<EjectPage(page_idx)>> \o PageOpening(page_idx + 1)
  /\ page_layout' = LayoutAfterOpening
  /\ pc' = "draw"
  /\ UNCHANGED <<pos, pango_column_height, prev_line_link,
                 splitVars, lineVars, envVars>>

\* a variant that steps over the line after the one placed
NextLinkSkipping == pos + 2

\* pango_lines = pango_lines->next
NextLink == pos + 1

\* the line is drawn in the current column and the offset advances
\* the text of the layout a line was cut from; the lines of a stream handed
\* to output_pages without its paragraphs have no text to tell
LineLayoutText(line) ==
  IF line.para \in 1..Len(paragraphs)
  THEN paragraphs[line.para].layout.text
  ELSE << >>

\* pango_cairo_show_layout_line: showing a line that holds an undecodable
\* byte puts the context into the error state INVALID_STRING; an error the
\* context is in already stays.  Of the lines of a wrapped paragraph the
\* one that holds the byte is Pango's choice.
ShowLineStatuses(line) ==
  IF cairo_status # "SUCCESS" \/ Decodable(LineLayoutText(line))
  THEN {cairo_status}
  ELSE IF \E j \in 1..Len(pango_lines) :
            pango_lines[j].para = line.para /\ pango_lines[j].index # line.index
       THEN {"SUCCESS", "INVALID_STRING"}
       ELSE {"INVALID_STRING"}

PlaceLine ==
  /\ \/ pc = "draw"
     \/ pc = "loop" /\ pos <= Len(pango_lines) /\ ~MustBreak
  /\ LET height == AdvanceHeight(CurLine)
     IN  /\ out' = Append(out,
                     [ Event("line", page_idx, column_idx,
                             100 * LineX(page_layout, column_idx, CurLine),
                             100 * LineY(page_layout, column_y_pos + height), pos)
                       EXCEPT !.ofs = column_y_pos ])
         /\ column_y_pos' = column_y_pos + height
  /\ cairo_status' \in ShowLineStatuses(CurLine)
  /\ pos' = NextLink
  /\ prev_line_link' = pos
  /\ pc' = "loop"
  /\ UNCHANGED <<page_layout, ctm, column_idx, page_idx, pango_column_height,
                 splitVars, lineVars, envVars>>

\* the stream is exhausted: eject_page, return page_idx
OutputEnd ==
  /\ pc = "loop"
  /\ pos > Len(pango_lines)
  /\ out' = Append(out, EjectPage(page_idx))
  /\ pc' = "done"
  /\ UNCHANGED <<page_layout, ctm, cairo_status, flowVars, splitVars, lineVars, envVars>>

\* output_pages is run once more over the same stream and layout, later
Rerun ==
  /\ pc = "done"
  /\ run = 1
  /\ run' = 2
  /\ out1' = out
  /\ out' = << >>
  /\ now' = now + 1
  /\ pc' = "output"
  /\ UNCHANGED <<page_layout, ctm, cairo_status, file, need_header, header_line_height,
                 flowVars, splitVars, lineVars>>

OutputNext ==
  \/ OutputStart
  \/ BreakColumn
  \/ BreakPage
  \/ PlaceLine
  \/ OutputEnd

(***************************************************************************)
(* Specifications                                                          *)
(***************************************************************************)
Identity == <<<<1, 1>>, <<1, 1>>>>

\* the locals of the three functions before any of them has run
FreshLocals ==
  /\ p = 1
  /\ last_para = 1
  /\ result = << >>
  /\ paragraphs = << >>
  /\ par_list = 1
  /\ line_list = << >>
  /\ max_height = 0
  /\ pos = 1
  /\ column_idx = 0
  /\ column_y_pos = 0
  /\ page_idx = 1
  /\ pango_column_height = 0
  /\ prev_line_link = 0
  /\ out = << >>
  /\ run = 1
  /\ out1 = << >>
  /\ now = 0

\* logical heights Pango reports for the header line: 14pt and 30pt
HeaderLineHeights == {14336, 30720}

\* right margins giving column widths 7, 8 and 15 on one A4 column, that is
\* CPI budgets 0, 1 and 2 at 10 cpi
SegRightMargins == {552, 551, 544}

\* right margins giving the same column widths on one column of the CUPS
\* page
CupsSegRightMargins == {569, 568, 561}

\* the command line (--right-margin, --cpi, --markup) leaves word wrap on;
\* the options of a CUPS job (page-right, cpi, wrap) can turn it off
SegOptions ==
  { [DefaultOptions EXCEPT !.right_margin = r, !.cpi = c,
                           !.do_use_markup = m] :
      r \in SegRightMargins, c \in {0, 10}, m \in BOOLEAN }
  \cup
  { [CupsDefaults EXCEPT !.right_margin = r, !.cpi = c, !.do_wordwrap = w] :
      r \in CupsSegRightMargins, c \in {0, 10}, w \in BOOLEAN }

\* 120 one-cell characters and a new line; 10 cpi on a column of 360pt
LongText == [k \in 1..121 |-> IF k <= 120 THEN 97 ELSE NL]
LongOptions == [DefaultOptions EXCEPT !.right_margin = 199, !.cpi = 10]

\* 111 one-cell characters and a new line; 54 cpi on a column of 148pt,
\* where 148 / 72.0 * 54 is a double just under 111
ShortBudgetText == [k \in 1..112 |-> IF k <= 111 THEN 97 ELSE NL]
ShortBudgetOptions == [DefaultOptions EXCEPT !.right_margin = 411, !.cpi = 54]

\* the buffers main hands to split_text_into_paragraphs: what read_file
\* returns on the files of the bounds, each closed by a new line
SegTexts == UNION { ReadFileResults(f) : f \in SeqsUpTo(Alphabet, MaxLen) }

\* split_text_into_paragraphs alone, on every buffer read_file returns on
\* the files of the bounds
SegInit ==
  /\ pc = "split"
  /\ file = << >>
  /\ \/ /\ text \in SegTexts
        /\ \E o \in SegOptions : page_layout = Geometry(o)
     \/ /\ text = LongText
        /\ page_layout = Geometry(LongOptions)
     \/ /\ text = ShortBudgetText
        /\ page_layout = Geometry(ShortBudgetOptions)
  /\ need_header = FALSE
  /\ header_line_height = 14336
  /\ pango_lines = << >>
  /\ ctm = Identity
  /\ cairo_status = "SUCCESS"
  /\ FreshLocals

SpecSeg == SegInit /\ [][SplitNext]_vars

\* top margins leaving columns of 40pt and 24pt on A4 (20pt and 4pt under a
\* header)
TopMargins == {765, 781}

\* --lpi and --stretch-chars: each outcome of do_stretch_chars && lpi > 0
\* and of lpi > 0, with an advance of 12pt and one that is no whole number
\* of Pango units
LpiStretch == {<<0, FALSE>>, <<0, TRUE>>, <<6, TRUE>>, <<7, FALSE>>}

\* lines per inch of the flow alone: unset; 3 lpi, an advance of 24pt, more
\* than either line height; 7 lpi, an advance that is no whole number of
\* points
FlowLpiValues == {0, 3, 7}

\* --stretch-chars changes the scale handed to cairo and nothing of the
\* flow: it is tried with one of the values of lpi
FlowStretch(l) == IF l = 7 THEN BOOLEAN ELSE {FALSE}

FlowOptions ==
  { [DefaultOptions EXCEPT !.num_columns = n, !.top_margin = t,
                           !.do_draw_header = h, !.lpi = ls[1],
                           !.do_stretch_chars = ls[2], !.do_rtl = d] :
      n \in 1..MaxColumns, t \in TopMargins, h \in BOOLEAN,
      ls \in UNION { {<<l, s>> : s \in FlowStretch(l)} : l \in FlowLpiValues },
      d \in BOOLEAN }

\* eject_column reads do_separation_line: the flow over two columns without
\* lpi is run with the flag off as well as on
SeparationFor(o) ==
  IF o.num_columns = 2 /\ o.lpi = 0 /\ ~o.do_stretch_chars
  THEN BOOLEAN ELSE {TRUE}

\* the line streams: every line 10.5pt or 13.5pt tall, with or without
\* formfeed
FlowStreams ==
  UNION { { [k \in 1..n |-> LineLink(k, 0, r[k], f[k])] :
              r \in [1..n -> LineExtents], f \in [1..n -> BOOLEAN] } :
          n \in 0..MaxLines }

\* output_pages alone, on every line stream of the bounds, run twice
FlowInit ==
  /\ pc = "output"
  /\ file = << >>
  /\ text = << >>
  /\ pango_lines \in FlowStreams
  /\ \E o \in FlowOptions : \E sep \in SeparationFor(o) :
       /\ page_layout = [Geometry(o) EXCEPT
                           !.scale_y = StretchScale(Geometry(o), MaxHeight(pango_lines, 0)),
                           !.do_separation_line = sep]
       /\ need_header = o.do_draw_header
       /\ header_line_height \in
            IF o.do_draw_header THEN HeaderLineHeights ELSE {14336}
  /\ ctm = CairoScale(Identity, page_layout.scale_x, page_layout.scale_y)
  /\ cairo_status = CairoScaleStatus(page_layout.scale_x, page_layout.scale_y)
  /\ FreshLocals

FlowNext == OutputNext \/ Rerun

SpecFlow == FlowInit /\ [][FlowNext]_vars

\* output_pages is sequential code: a step that can be taken is taken
SpecFlowFair == FlowInit /\ [][FlowNext]_vars /\ WF_vars(FlowNext)

\* one column more than the other runs use: with three columns the mirrored
\* index of a right-to-left separator differs from the index handed over
SepColumns == MaxColumns + 1

\* both directions on SepColumns columns of 4pt, 20pt, 24pt and 40pt
SepOptions ==
  { [DefaultOptions EXCEPT !.num_columns = SepColumns, !.top_margin = t,
                           !.do_draw_header = h, !.do_rtl = d] :
      t \in TopMargins, h \in BOOLEAN, d \in BOOLEAN }

\* output_pages alone on SepColumns columns, on every line stream of the
\* bounds
SepInit ==
  /\ pc = "output"
  /\ file = << >>
  /\ text = << >>
  /\ pango_lines \in FlowStreams
  /\ \E o \in SepOptions :
       /\ page_layout = Geometry(o)
       /\ need_header = o.do_draw_header
       /\ header_line_height \in
            IF o.do_draw_header THEN HeaderLineHeights ELSE {14336}
  /\ ctm = Identity
  /\ cairo_status = "SUCCESS"
  /\ FreshLocals

SpecSep == SepInit /\ [][FlowNext]_vars

\* the options of the whole program on plain wrapped text
LayoutOptions ==
  { [DefaultOptions EXCEPT !.num_columns = n, !.top_margin = t,
                           !.do_draw_header = h, !.lpi = ls[1],
                           !.do_stretch_chars = ls[2]] :
      n \in 1..MaxColumns, t \in TopMargins, h \in BOOLEAN,
      ls \in LpiStretch }

\* top margins leaving columns of 40pt and 24pt on the CUPS page
CupsTopMargins == {716, 732}

\* the modes of the segmenter on one column of 24pt by 8pt: CPI rewrap with
\* a budget of one cell and markup from the command line; the defaults of a
\* CUPS job (10 cpi, 6 lpi) and a CUPS job with the options cpi=0 lpi=0
\* wrap=false
ModeOptions ==
  { [DefaultOptions EXCEPT !.top_margin = 781, !.right_margin = 551,
                           !.cpi = 10],
    [DefaultOptions EXCEPT !.top_margin = 781, !.right_margin = 551,
                           !.do_use_markup = TRUE],
    [CupsDefaults EXCEPT !.top_margin = 732, !.right_margin = 568],
    [CupsDefaults EXCEPT !.top_margin = 732, !.right_margin = 568,
                         !.cpi = 0, !.lpi = 0, !.do_wordwrap = FALSE] }

\* the characters of the files of a mode: a markup text is not scanned; a
\* CUPS job is the case of the undecodable byte; the characters of two cells
\* and of none go through the CPI rewrap of the command line
ModeAlphabet(o) ==
  IF o.do_use_markup THEN {NL, FF, 97}
  ELSE IF o.cups_mode THEN {NL, FF, 97, BadByte}
  ELSE Alphabet

\* "A\nB\f C\n" on one column, without header and lpi
ScenarioFile == <<65, NL, 66, FF, 32, 67, NL>>
\* from the command line, and as a CUPS job with cpi=0 lpi=0 wrap=false
ScenarioOptions ==
  { [DefaultOptions EXCEPT !.top_margin = t] : t \in TopMargins }
  \cup
  { [CupsDefaults EXCEPT !.top_margin = t, !.cpi = 0, !.lpi = 0,
                         !.do_wordwrap = FALSE] : t \in CupsTopMargins }

\* margins that leave no room on A4: a column height of -14, a column width
\* of -40, a column width of 0
BadGeometryOptions ==
  { [DefaultOptions EXCEPT !.top_margin = 820],
    [DefaultOptions EXCEPT !.right_margin = 600],
    [DefaultOptions EXCEPT !.right_margin = 559] }

\* the input files tried with given options
FilesFor(o) ==
  (IF o \in LayoutOptions THEN SeqsUpTo({NL, FF, 97}, MaxFileLen) ELSE {})
  \cup (IF o \in ModeOptions
        THEN SeqsUpTo(ModeAlphabet(o), MaxFileLen) ELSE {})
  \cup (IF o \in ScenarioOptions THEN {ScenarioFile} ELSE {})
  \cup (IF o \in BadGeometryOptions THEN SeqsUpTo({NL, 97}, 2) ELSE {})

\* the whole program from the call of read_file on
MainInit ==
  /\ pc = "read_file"
  /\ text = << >>
  /\ \E o \in LayoutOptions \cup ModeOptions \cup ScenarioOptions
                \cup BadGeometryOptions :
       /\ file \in FilesFor(o)
       /\ page_layout = Geometry(o)
       /\ need_header = o.do_draw_header
       /\ header_line_height \in
            IF o.do_draw_header THEN HeaderLineHeights ELSE {14336}
  /\ pango_lines = << >>
  /\ ctm = Identity
  /\ cairo_status = "SUCCESS"
  /\ FreshLocals

Next ==
  \/ ReadFile
  \/ SplitNext
  \/ LinesOfParagraph
  \/ LinesReturn
  \/ MainScale
  \/ OutputNext

Spec == MainInit /\ [][Next]_vars

(***************************************************************************)
(* Reading the log                                                         *)
(***************************************************************************)
IsLine(e) == e.op = "line"

\* the draws of text lines, in call order
Placed == SelectSeq(out, IsLine)

\* number of calls of the given kind
Count(log, op) == Cardinality({k \in 1..Len(log) : log[k].op = op})

\* line j is the last line of its paragraph
LastOfParagraph(j) ==
  j = Len(pango_lines) \/ pango_lines[j + 1].para # pango_lines[j].para

\* the position in the buffer just after the text of paragraph k
StopOf(k) == paragraphs[k].text + Len(paragraphs[k].layout.text)

\* paragraph k of a plain-mode scan is the last one emitted for a run of
\* text that a form feed closes
ClosedByFormfeed(k) ==
  /\ ~page_layout.do_use_markup
  /\ StopOf(k) <= Len(text)
  /\ text[StopOf(k)] = FF
  /\ (k = Len(paragraphs) \/ paragraphs[k + 1].text > StopOf(k))

(***************************************************************************)
(* C1: the line placed right after the last line of a form-feed-terminated *)
(* paragraph (a paragraph whose flag is set, or the last fragment of a run *)
(* of text closed by a form feed) is placed at offset 0 of another column  *)
(* or page than that last line, however the paragraph was wrapped or cut.  *)
(***************************************************************************)
C1_FormfeedStartsColumn ==
  \A j \in 1..Len(Placed) :
    (/\ j > 1
     /\ LastOfParagraph(j - 1)
     /\ LET k == pango_lines[j - 1].para
        IN  paragraphs[k].formfeed \/ ClosedByFormfeed(k))
    => /\ Placed[j].ofs = 0
       /\ <<Placed[j].page, Placed[j].column>>
            # <<Placed[j - 1].page, Placed[j - 1].column>>

\* a form-feed-terminated paragraph wrapped into two lines has been placed,
\* and the next line would have fitted below it
C1_Witness ==
  \E j \in 2..Len(Placed) :
    /\ LastOfParagraph(j - 1)
    /\ pango_lines[j - 1].index = 1
    /\ ClosedByFormfeed(pango_lines[j - 1].para)
    /\ Placed[j - 1].ofs + AdvanceHeight(pango_lines[j - 1])
         + pango_lines[j].logical_rect.height < PangoColumnHeight
    /\ Placed[j].ofs = 0

\* the column slot a placed line is in
SlotOf(e) == <<e.page, e.column>>

\* the offset the cursor is at when line j of the stream comes up, and the
\* slot it is in: the slot and the advanced offset of the line before it
OffsetBefore(j) ==
  IF j = 1 THEN 0
  ELSE Placed[j - 1].ofs + AdvanceHeight(pango_lines[j - 1])

SlotBefore(j) == IF j = 1 THEN <<1, 0>> ELSE SlotOf(Placed[j - 1])

(***************************************************************************)
(* C2.  In output_pages, whenever the offset of the current column plus    *)
(* the natural height of the next line is greater than or equal to the     *)
(* column height (equality included), the line is not placed in the        *)
(* current column: it is placed at offset 0 of another column slot.        *)
(***************************************************************************)
C2_BreakWhenLineFills ==
  \A j \in 1..Len(Placed) :
    OffsetBefore(j) + pango_lines[j].logical_rect.height >= PangoColumnHeight
      => /\ Placed[j].ofs = 0
         /\ SlotOf(Placed[j]) # SlotBefore(j)

\* a line that would fill its column exactly, with no form feed before it,
\* has been placed
C2_Witness ==
  \E j \in 2..Len(Placed) :
    /\ ~pango_lines[j - 1].formfeed
    /\ OffsetBefore(j) + pango_lines[j].logical_rect.height = PangoColumnHeight
    /\ Placed[j].ofs = 0

RECURSIVE Cells(_)
\* the character cells of a text: the sum of the cell widths of its
\* characters, a character without a width counting for none
Cells(s) ==
  IF s = << >> THEN 0
  ELSE (IF wcwidth(Head(s)) >= 0 THEN wcwidth(Head(s)) ELSE 0) + Cells(Tail(s))

\* col, the number of characters the rewrap admits on a line: column_width
\* / 72.0 * cpi converted to gsize.  A quotient of -1 or less wraps around
\* modulo 2^64 on the builds that do not saturate; it is written as in
\* CpiBudgets, a number above the length of every buffer.
Budget ==
  LET q == CpiColumn(page_layout.column_width, page_layout.cpi)
  IN  IF q >= 0 THEN q ELSE 2147483647 + q

(***************************************************************************)
(* C3.  With characters per inch set and word wrap on, every paragraph     *)
(* fragment of a plain text emitted by split_text_into_paragraphs has a character-cell     *)
(* count that does not exceed budget = floor(column_width / 72 * cpi).     *)
(* The code compares the number of characters, not of cells, with the      *)
(* budget before it cuts, so a paragraph of one double-width character     *)
(* under a budget of one cell is emitted whole: TLC refutes the statement. *)
(***************************************************************************)
C3_FragmentsWithinBudget ==
  (UseCpi /\ ~page_layout.do_use_markup /\ Budget >= 0)
    => \A k \in 1..Len(result) : Cells(result[k].layout.text) <= Budget

\* the text of line j when its paragraph is a single line
LineText(j) == paragraphs[pango_lines[j].para].layout.text

\* one column, no header, no lpi, at least one line, every line of the same
\* natural height h, and a column that admits one such line but not two
OneLineColumns ==
  /\ page_layout.num_columns = 1
  /\ ~need_header
  /\ page_layout.lpi = 0
  /\ Len(pango_lines) >= 1
  /\ \E h \in {r.height : r \in LineExtents} :
       /\ \A j \in 1..Len(pango_lines) : pango_lines[j].logical_rect.height = h
       /\ h < PangoColumnHeight
       /\ h + h >= PangoColumnHeight

(***************************************************************************)
(* C4.  With one column, no header, no lpi and a column height that admits *)
(* one line but not two (all lines of one height), a stream of n >= 1      *)
(* lines is placed one line to a page, in order, at offset 0, and          *)
(* output_pages returns n.  The file "A\nB\f C\n", none of its paragraphs  *)
(* wrapped, gives the three lines "A", "B", " C" on pages 1, 2, 3 and the  *)
(* page count 3.                                                           *)
(***************************************************************************)
C4_OneLinePerPage ==
  (pc = "done" /\ OneLineColumns)
    => /\ page_idx = Len(pango_lines)
       /\ Count(out, "show_page") = Len(pango_lines)
       /\ Len(Placed) = Len(pango_lines)
       /\ \A j \in 1..Len(Placed) :
            /\ Placed[j].line = j
            /\ Placed[j].page = j
            /\ Placed[j].column = 0
            /\ Placed[j].ofs = 0
       /\ (file = ScenarioFile /\ Len(pango_lines) = Len(paragraphs))
            => /\ page_idx = 3
               /\ Len(Placed) = 3
               /\ LineText(1) = <<65>>
               /\ LineText(2) = <<66>>
               /\ LineText(3) = <<32, 67>>

\* the scenario has run to its end under the conditions
C4_Witness ==
  /\ pc = "done"
  /\ OneLineColumns
  /\ file = ScenarioFile
  /\ Len(pango_lines) = Len(paragraphs)
  /\ page_idx = 3
  /\ Placed[3].page = 3
  /\ pango_lines[2].formfeed

\* the start-of-page and end-of-page signals of a log, in order
PageSignals(log) ==
  SelectSeq(log, LAMBDA e : e.op \in {"start_page", "show_page"})

\* a page is open after the first i events of the log
PageOpenAfter(log, i) ==
  Count(SubSeq(log, 1, i), "start_page")
    = Count(SubSeq(log, 1, i), "show_page") + 1

(***************************************************************************)
(* C5.  Over a run of output_pages the start-of-page and end-of-page       *)
(* signals alternate, the first being a start-of-page; every line, header  *)
(* and separator draw is issued while a page is open; and at the return    *)
(* the last event is an end-of-page that closes the page of the last line  *)
(* placed, no page is left open, and the number of end-of-page signals is  *)
(* the page index returned.                                                *)
(***************************************************************************)
C5_PageSignalsAlternate ==
  /\ \A k \in 1..Len(PageSignals(out)) :
       PageSignals(out)[k].op
         = (IF k % 2 = 1 THEN "start_page" ELSE "show_page")
  /\ \A i \in 1..Len(out) :
       out[i].op \in {"line", "header", "separator"}
         => PageOpenAfter(out, i - 1)
  /\ pc \in {"loop", "draw"} => PageOpenAfter(out, Len(out))
  /\ pc = "done"
       => /\ out[Len(out)].op = "show_page"
          /\ out[Len(out) - 1].op # "show_page"
          /\ \A i \in 1..Len(out) : out[i].op = "line" => i < Len(out)
          /\ Count(out, "show_page") = Count(out, "start_page")
          /\ Count(out, "show_page") = page_idx

\* a run over two pages or more with headers and a separator has returned
C5_Witness ==
  /\ pc = "done"
  /\ page_idx >= 2
  /\ Count(out, "header") >= 2
  /\ Count(out, "separator") >= 1
  /\ Len(Placed) = Len(pango_lines)
  /\ Len(Placed) >= 2

\* the events a step appends to the log
NewEvents == SubSeq(out', Len(out) + 1, Len(out'))

\* a step of output_pages that takes a forced break
BreakStep == pc = "loop" /\ pc' = "draw"

(***************************************************************************)
(* C6.  Every forced break in output_pages resets the offset to 0 and      *)
(* moves the cursor one column slot on.  If the column left is not the     *)
(* last one, the page index is unchanged, the column index grows by 1 and  *)
(* a column break is emitted (the separator, no end-of-page and no         *)
(* start-of-page); otherwise the column index becomes 0, an end-of-page    *)
(* is emitted, the page index grows by exactly 1 and a start-of-page is    *)
(* emitted.  Within a run the page index changes at such a page break      *)
(* only, so it never decreases.                                            *)
(***************************************************************************)
C6_BreakAdvancesOneSlot ==
  [][ /\ BreakStep =>
           /\ column_y_pos' = 0
           /\ IF column_idx + 1 < page_layout.num_columns
              THEN /\ page_idx' = page_idx
                   /\ column_idx' = column_idx + 1
                   /\ PageSignals(NewEvents) = << >>
                   /\ page_layout.do_separation_line
                        => Count(NewEvents, "separator") = 1
              ELSE /\ column_idx' = 0
                   /\ page_idx' = page_idx + 1
                   /\ Len(NewEvents) >= 2
                   /\ NewEvents[1].op = "show_page"
                   /\ NewEvents[2].op = "start_page"
                   /\ Len(PageSignals(NewEvents)) = 2
                   /\ Count(NewEvents, "separator") = 0
      /\ (pc # "output" /\ page_idx' # page_idx)
           => BreakStep /\ page_idx' = page_idx + 1
      /\ (pc # "output" /\ ~BreakStep)
           => column_idx' = column_idx
    ]_vars

\* a column break and then a page break have been taken on two columns
C6_Witness ==
  /\ pc = "draw"
  /\ page_layout.num_columns = 2
  /\ page_idx = 2
  /\ column_idx = 0
  /\ column_y_pos = 0
  /\ Count(out, "separator") = 1
  /\ out[Len(out)].op \in {"start_page", "header"}

\* the origin of the column slot a line event was drawn in: the x of the
\* line, less the right alignment of a right-to-left line
SlotOrigin(e) ==
  IF page_layout.pango_dir = "RTL"
  THEN e.x - 100 * (page_layout.column_width
                    - TruncDiv(pango_lines[e.line].logical_rect.width,
                               PANGO_SCALE))
  ELSE e.x

(***************************************************************************)
(* C7.  With one column, in both text directions: the column slot of       *)
(* every line begins at left_margin, the column width is the page width    *)
(* less the two side margins with no gutter subtracted (truncated to an    *)
(* integer), no separator is drawn, the column index stays 0 and every     *)
(* line placed at offset 0 after another line is on the next page.         *)
(***************************************************************************)
C7_SingleColumnNoGutter ==
  page_layout.num_columns = 1
    => /\ \A j \in 1..Len(Placed) :
            /\ SlotOrigin(Placed[j]) = 100 * page_layout.left_margin
            /\ Placed[j].column = 0
            /\ (j > 1 /\ Placed[j].ofs = 0)
                 => Placed[j].page = Placed[j - 1].page + 1
       /\ LET room == page_layout.page_width
                        - 100 * (page_layout.left_margin
                                 + page_layout.right_margin)
          IN  /\ 100 * page_layout.column_width <= room
              /\ room < 100 * (page_layout.column_width + 1)
       /\ Count(out, "separator") = 0
       /\ column_idx = 0
       /\ Count(out, "start_page") = (IF pc = "output" THEN 0 ELSE page_idx)

\* a right-to-left run on one column has returned after a page break
C7_Witness ==
  /\ pc = "done"
  /\ page_layout.num_columns = 1
  /\ page_layout.pango_dir = "RTL"
  /\ page_idx >= 2
  /\ Len(Placed) >= 2
  /\ Placed[2].ofs = 0

\* where a run placed its lines: page, column and offset of every line
Assignment(log) ==
  LET lines == SelectSeq(log, IsLine)
  IN  [j \in 1..Len(lines) |-> <<lines[j].line, lines[j].page,
                                  lines[j].column, lines[j].ofs>>]

\* s is a prefix of t
IsPrefix(s, t) == Len(s) <= Len(t) /\ s = SubSeq(t, 1, Len(s))

(***************************************************************************)
(* C8.  Two runs of output_pages over the same line stream and the same    *)
(* page layout give every line the same page index, column index and       *)
(* offset and return the same page count, although the second run begins   *)
(* with the header_height the first one recorded, at a later time, with    *)
(* the locals and the transform the first run left behind.                 *)
(***************************************************************************)
C8_FlowDeterministic ==
  run = 2
    => /\ IsPrefix(Assignment(out), Assignment(out1))
       /\ pc = "done"
            => /\ Assignment(out) = Assignment(out1)
               /\ Count(out, "show_page") = Count(out1, "show_page")
               /\ page_idx = Count(out1, "show_page")

\* the second run has returned; the first had recorded a header height and
\* broke columns and pages, and the headers of the two runs differ
C8_Witness ==
  /\ run = 2
  /\ pc = "done"
  /\ need_header
  /\ page_layout.header_height > 0
  /\ page_idx >= 2
  /\ Count(out1, "separator") >= 1
  /\ Len(Assignment(out1)) >= 2
  /\ out # out1

(***************************************************************************)
(* C9.  With stretch_characters on and lpi > 0, the transform in effect    *)
(* when a text line is shown carries the stretch scale, for every line of  *)
(* every page.  start_page resets the transform to the identity before     *)
(* any line is shown and nothing sets the scale again, so every line is    *)
(* shown unscaled: TLC refutes the statement at the first line placed.     *)
(***************************************************************************)
C9_StretchInEffect ==
  (page_layout.do_stretch_chars /\ page_layout.lpi > 0)
    => \A i \in 1..Len(out) :
         out[i].op = "line"
           => out[i].ctm = <<page_layout.scale_x, page_layout.scale_y>>

\* the greatest natural height over all the lines of the stream, 0 if none
GreatestHeight ==
  IF pango_lines = << >> THEN 0
  ELSE CHOOSE h \in {pango_lines[j].logical_rect.height :
                       j \in 1..Len(pango_lines)} :
         \A j \in 1..Len(pango_lines) : pango_lines[j].logical_rect.height <= h

\* the offset the cursor is at once line j has been placed, where the log
\* or the cursor shows it: the next line of the same column, or the cursor
\* itself after the last line placed
ShownOffsetAfter(j) ==
  IF j < Len(Placed) /\ SlotOf(Placed[j + 1]) = SlotOf(Placed[j])
  THEN {Placed[j + 1].ofs}
  ELSE IF j = Len(Placed) /\ pc \in {"loop", "done"} THEN {column_y_pos}
  ELSE {}

(***************************************************************************)
(* C10.  Once all lines are measured and before any line is placed, the    *)
(* vertical scale is (72 / lpi) divided by the greatest natural height     *)
(* over all lines of the stream if stretch_characters is on and lpi > 0,   *)
(* and 1 otherwise, and it keeps that value to the end.  When lpi > 0 the  *)
(* offset advances after every placed line by 72 / lpi (in Pango units,    *)
(* truncated to an integer), whatever the natural height of the line.      *)
(***************************************************************************)
C10_StretchScaleAndAdvance ==
  /\ pc \in {"scale", "output", "loop", "draw", "done"}
       => IF page_layout.do_stretch_chars /\ page_layout.lpi > 0
          THEN page_layout.scale_y[1] * (page_layout.lpi * GreatestHeight)
                 = page_layout.scale_y[2] * (72 * PANGO_SCALE)
          ELSE page_layout.scale_y = <<1, 1>>
  /\ pc \in {"read_file", "split", "split_end", "lines", "scale", "output"}
       => Placed = << >>
  /\ pc \in {"read_file", "split", "split_end", "lines"}
       => page_layout.scale_y = <<1, 1>>
  /\ page_layout.lpi > 0
       => \A j \in 1..Len(Placed) : \A after \in ShownOffsetAfter(j) :
            /\ (after - Placed[j].ofs) * page_layout.lpi <= 72 * PANGO_SCALE
            /\ (after - Placed[j].ofs + 1) * page_layout.lpi > 72 * PANGO_SCALE

\* lpi = 6 with stretch: a 10.5pt line and a 13.5pt line in one column, scale
\* 12 / 13.5 = 8/9, both followed by an advance of 12pt
C10_Witness ==
  /\ pc = "done"
  /\ page_layout.lpi = 6
  /\ page_layout.do_stretch_chars
  /\ Len(Placed) = 2
  /\ pango_lines[1].logical_rect.height = 10752
  /\ pango_lines[2].logical_rect.height = 13824
  /\ page_layout.scale_y = <<8, 9>>
  /\ Placed[1].ofs = 0
  /\ Placed[2].ofs = 12 * PANGO_SCALE
  /\ column_y_pos = 24 * PANGO_SCALE

\* the left edge of the physical slot s, slots counted from the left from 0
SlotLeft(s) ==
  page_layout.left_margin
    + s * (page_layout.column_width + page_layout.gutter_width)

(***************************************************************************)
(* C11.  Right to left with n columns, the line placed in logical column   *)
(* k is drawn in the physical slot n-1-k counted from the left, so column  *)
(* 0 is the rightmost slot, and its x is the right edge of that slot less  *)
(* the measured width of the line:                                         *)
(* x = left_margin + (n-1-k)*(column_width + gutter_width)                 *)
(*       + column_width - line_width.                                      *)
(* draw_line_to_page subtracts logical_rect.width / PANGO_SCALE, a         *)
(* division of two integers, so a line whose width is no whole number of   *)
(* points is drawn short of its width from the right edge and ends beyond  *)
(* it: TLC refutes the statement.                                          *)
(***************************************************************************)
C11_RtlMirroredRightAligned ==
  page_layout.pango_dir = "RTL"
    => \A i \in 1..Len(out) :
         out[i].op = "line"
           => LET k == out[i].column
                  n == page_layout.num_columns
              IN  /\ k \in 0..(n - 1)
                  /\ out[i].x * PANGO_SCALE
                       = 100 * ((SlotLeft(n - 1 - k) + page_layout.column_width)
                                  * PANGO_SCALE
                                - pango_lines[out[i].line].logical_rect.width)

(***************************************************************************)
(* C12.  If the margins, the gutters and the number of columns give a      *)
(* column width or a column height that is not positive, the program       *)
(* stops with a configuration error before any work: no paragraph is       *)
(* segmented, no line is measured, no page is started and no line is       *)
(* placed.  main computes the two values and goes on to read_file,         *)
(* split_text_into_paragraphs and output_pages without looking at their    *)
(* sign: TLC refutes the statement.                                        *)
(***************************************************************************)
C12_BadGeometryRejected ==
  (page_layout.column_width <= 0 \/ page_layout.column_height <= 0)
    => /\ result = << >>
       /\ paragraphs = << >>
       /\ pango_lines = << >>
       /\ out = << >>

\* the positions of the buffer where a paragraph ends in plain mode: a new
\* line, a form feed, or an invalid character
Boundaries == {q \in 1..Len(text) : text[q] \in {NL, FF, BadByte}}

\* a paragraph of the list ends at position q of the buffer
ParagraphEndsAt(list, q) ==
  \E k \in 1..Len(list) : list[k].text + Len(list[k].layout.text) = q

(***************************************************************************)
(* C13.  In plain mode (not the CUPS path, no markup), an invalid          *)
(* character met by the scan of split_text_into_paragraphs closes the      *)
(* paragraph accumulated so far and the scan goes on: every boundary of    *)
(* the buffer, those after the invalid character included, has its         *)
(* paragraph in the list returned.  The code sets wc = 0 for the invalid   *)
(* character, emits the paragraph and leaves the loop at "if (!wc)         *)
(* break", so the boundaries after it have none: TLC refutes the           *)
(* statement.                                                              *)
(***************************************************************************)
C13_ScanGoesOnAfterInvalid ==
  (pc = "lines" /\ ~page_layout.do_use_markup /\ ~page_layout.cups_mode)
    => \A q \in Boundaries : ParagraphEndsAt(paragraphs, q)

(***************************************************************************)
(* C14.  A run of the program on plain text (no markup, not the CUPS       *)
(* path) that ends normally, with its pages emitted, has scanned the       *)
(* buffer to its end, has a paragraph for every new line and form feed of  *)
(* the buffer and has placed every line; a run that aborts has emitted no  *)
(* page.  After an invalid character the scan stops without an error and   *)
(* the run completes with the rest of the text left out: TLC refutes the   *)
(* statement.                                                              *)
(***************************************************************************)
C14_CompleteOrAbort ==
  /\ (pc = "done" /\ ~page_layout.do_use_markup /\ ~page_layout.cups_mode)
       => /\ p > Len(text)
          /\ \A q \in 1..Len(text) :
               text[q] \in {NL, FF} => ParagraphEndsAt(paragraphs, q)
          /\ Len(Placed) = Len(pango_lines)
  /\ pc = "exit" => out = << >>

\* the position just after the text of a paragraph: that of its closing
\* delimiter, or one past the end of the buffer
EndOf(para) == para.text + Len(para.layout.text)

\* every character of the buffer is valid
ValidBuffer == Decodable(text)

(***************************************************************************)
(* C15.  In plain mode without CPI rewrap, on every valid buffer,          *)
(* split_text_into_paragraphs returns in source order one paragraph for    *)
(* each maximal run of text closed by a new line, a form feed or the end   *)
(* of the buffer: the first begins the buffer, each holds the characters   *)
(* up to its delimiter and no delimiter, each is marked form-feed          *)
(* terminated iff a form feed closes it, each next one begins just after   *)
(* the delimiter, and the last one reaches the end of the buffer, so that  *)
(* the paragraphs and their delimiters make up the buffer; the empty       *)
(* buffer has no paragraph.  read_file closes every buffer that is not     *)
(* empty with a new line, so the last run of every buffer has a delimiter. *)
(***************************************************************************)
C15_ParagraphsCoverBuffer ==
  (/\ pc = "lines"
   /\ ~page_layout.do_use_markup
   /\ ~UseCpi
   /\ ValidBuffer)
    => IF text = << >> THEN paragraphs = << >>
       ELSE
       /\ Len(paragraphs) >= 1
       /\ paragraphs[1].text = 1
       /\ \A k \in 1..Len(paragraphs) :
            LET para == paragraphs[k]
            IN  /\ EndOf(para) <= Len(text) + 1
                /\ para.layout.text = SubSeq(text, para.text, EndOf(para) - 1)
                /\ \A q \in 1..Len(para.layout.text) :
                     para.layout.text[q] \notin {NL, FF}
                /\ EndOf(para) <= Len(text)
                     => /\ text[EndOf(para)] \in {NL, FF}
                        /\ para.formfeed = (text[EndOf(para)] = FF)
                /\ EndOf(para) = Len(text) + 1 => ~para.formfeed
                /\ k < Len(paragraphs)
                     => paragraphs[k + 1].text = EndOf(para) + 1
       /\ EndOf(paragraphs[Len(paragraphs)]) >= Len(text)

\* the buffer read_file returns on the file "a", form feed, "a": the
\* paragraph "a" closed by the form feed and the paragraph "a" closed by
\* the new line read_file added
C15_Witness ==
  /\ pc = "lines"
  /\ ~page_layout.do_use_markup
  /\ ~UseCpi
  /\ text = <<97, FF, 97, NL>>
  /\ Len(paragraphs) = 2
  /\ paragraphs[1].layout.text = <<97>> /\ paragraphs[1].formfeed
  /\ paragraphs[2].text = 3
  /\ paragraphs[2].layout.text = <<97>> /\ ~paragraphs[2].formfeed

\* the paragraph holds a whole source paragraph: it begins the buffer or
\* follows a delimiter, and a delimiter closes it
WholeParagraph(para) ==
  /\ para.text = 1 \/ text[para.text - 1] \in {NL, FF}
  /\ EndOf(para) <= Len(text)
  /\ text[EndOf(para)] \in {NL, FF}

(***************************************************************************)
(* C16.  With characters per inch set and word wrap on, a paragraph that   *)
(* fits the CPI budget, by its characters and by its cells, is given to    *)
(* Pango with the column width as wrap width and the word-or-character     *)
(* wrap mode.  The CPI branch ends with pango_layout_set_width (layout,    *)
(* -1) whether the paragraph was cut or not, and never sets a wrap mode:   *)
(* TLC refutes the statement.                                              *)
(***************************************************************************)
C16_FittingParagraphWrapsAtColumn ==
  (UseCpi /\ ~page_layout.do_use_markup /\ Budget >= 0)
    => \A k \in 1..Len(result) :
         (/\ WholeParagraph(result[k])
          /\ Len(result[k].layout.text) <= Budget
          /\ Cells(result[k].layout.text) <= Budget)
           => /\ result[k].layout.width
                   = page_layout.column_width * PANGO_SCALE
              /\ result[k].layout.wrap = "WORD_CHAR"

\* page_height - top_margin - bottom_margin - header_sep - header_height,
\* as an integer number of points
ColumnHeightLessHeader ==
  TruncDiv(page_layout.page_height
             - 100 * (page_layout.top_margin + page_layout.bottom_margin
                      + page_layout.header_sep + page_layout.header_height),
           100)

(***************************************************************************)
(* C17.  With the header enabled, the column height of every overflow      *)
(* test of output_pages excludes the header band: it is page_height -      *)
(* top_margin - bottom_margin - header_sep - header_height, header_height  *)
(* being the third of the logical height of the header line that the       *)
(* header draw has recorded.  output_pages takes the column height main    *)
(* computed before any header was measured and the recorded                *)
(* header_height never enters it: TLC refutes the statement.               *)
(***************************************************************************)
C17_ColumnHeightExcludesHeader ==
  (need_header /\ pc \in {"loop", "draw", "done"})
    => /\ page_layout.header_height = HeaderHeight
       /\ pango_column_height = ColumnHeightLessHeader * PANGO_SCALE

\* page_width - left_margin - right_margin, in hundredths of a point
RoomBetweenMargins ==
  page_layout.page_width
    - 100 * (page_layout.left_margin + page_layout.right_margin)

(***************************************************************************)
(* C18.  For every configuration of one column or more, column_width is    *)
(* (page_width - left_margin - right_margin - gutter_width * (n - 1)) / n  *)
(* truncated to an integer and column_height is page_height - top_margin   *)
(* - header_sep - bottom_margin as an integer, header_sep being 0 without  *)
(* header; so n * column_width + (n - 1) * gutter_width is at most         *)
(* page_width - left_margin - right_margin: the slots do not overlap and   *)
(* every slot ends at or before page_width - right_margin.  The            *)
(* conversion to int truncates toward zero and main accepts margins that   *)
(* leave a negative room, for which the truncated width is greater than    *)
(* the quotient: TLC refutes the statement.                                *)
(***************************************************************************)
C18_ColumnsWithinMargins ==
  LET n == page_layout.num_columns
      g == page_layout.gutter_width
      w == page_layout.column_width
  IN  n >= 1
        => /\ w = TruncDiv(RoomBetweenMargins - 100 * g * (n - 1), 100 * n)
           /\ page_layout.header_sep = (IF need_header THEN HeaderSep ELSE 0)
           /\ page_layout.column_height
                = TruncDiv(page_layout.page_height
                             - 100 * (page_layout.top_margin
                                      + page_layout.header_sep
                                      + page_layout.bottom_margin), 100)
           /\ 100 * (n * w + (n - 1) * g) <= RoomBetweenMargins
           /\ \A k \in 0..(n - 1) :
                /\ 100 * (SlotLeft(k) + w)
                     <= page_layout.page_width - 100 * page_layout.right_margin
                /\ k < n - 1 => SlotLeft(k) + w <= SlotLeft(k + 1)

(***************************************************************************)
(* C19.  In markup mode split_text_into_paragraphs returns exactly one     *)
(* paragraph, which covers the whole buffer whatever new lines and form    *)
(* feeds it holds and whatever cpi is; its wrap width is the column width  *)
(* when word wrap is on and it is unconstrained (-1) when word wrap is     *)
(* off.  The layout of the paragraph holds the whole buffer when Pango can *)
(* parse it, and no text when the buffer holds an undecodable byte.        *)
(***************************************************************************)
C19_MarkupIsOneParagraph ==
  (page_layout.do_use_markup /\ pc = "lines")
    => /\ Len(paragraphs) = 1
       /\ paragraphs[1].text = 1
       /\ paragraphs[1].length = ByteLen(text)
       /\ paragraphs[1].layout.text = (IF ValidBuffer THEN text ELSE << >>)
       /\ paragraphs[1].layout.markup
       /\ paragraphs[1].layout.width
            = (IF page_layout.do_wordwrap /\ page_layout.column_width >= 0
               THEN page_layout.column_width * PANGO_SCALE ELSE -1)

\* a markup buffer with a new line and a form feed, under cpi and word
\* wrap, has come back as one paragraph
C19_Witness ==
  /\ pc = "lines"
  /\ page_layout.do_use_markup
  /\ page_layout.do_wordwrap
  /\ page_layout.cpi > 0
  /\ \E q, r \in 1..Len(text) : text[q] = NL /\ text[r] = FF /\ q < r
  /\ Len(paragraphs) = 1
  /\ paragraphs[1].layout.width > 0

(***************************************************************************)
(* C20.  With the header enabled the header is drawn exactly once on       *)
(* every page, right after the start-of-page of that page and so before    *)
(* any of its lines, with the index of the page as page number: 1 for the  *)
(* first page and one more for each next page.  With the header disabled   *)
(* it is never drawn.                                                      *)
(***************************************************************************)
C20_HeaderOncePerPage ==
  /\ \A k \in 1..Len(PageSignals(out)) :
       PageSignals(out)[k].op = "start_page"
         => PageSignals(out)[k].page = (k + 1) \div 2
  /\ \A i \in 1..Len(out) :
       /\ (out[i].op = "start_page" /\ need_header)
            => /\ i < Len(out)
               /\ out[i + 1].op = "header"
               /\ out[i + 1].page = out[i].page
       /\ out[i].op = "header"
            => /\ need_header
               /\ i > 1
               /\ out[i - 1].op = "start_page"
               /\ out[i - 1].page = out[i].page
  /\ Count(out, "header")
       = (IF need_header THEN Count(out, "start_page") ELSE 0)

\* a run with header over three pages has returned
C20_Witness ==
  /\ pc = "done"
  /\ need_header
  /\ page_idx = 3
  /\ Count(out, "header") = 3
  /\ \E i \in 1..Len(out) : out[i].op = "header" /\ out[i].page = 3

\* the advance of every line when lines per inch are set
LpiHeight == (72 * PANGO_SCALE) \div page_layout.lpi

\* line j was placed in another column slot than the cursor was in
Broke(j) == SlotOf(Placed[j]) # SlotBefore(j)

(***************************************************************************)
(* C21.  With lpi > 0 a line of the stream is moved to the next column     *)
(* slot exactly when the offset before it plus its natural height is       *)
(* greater than or equal to the column height, or the line before it       *)
(* carries a form feed; the offset then advances by the height 72 / lpi    *)
(* and the line is drawn at the offset plus that height.  The height       *)
(* 72 / lpi does not enter the comparison, so a line lower than 72 / lpi   *)
(* is placed although its advanced offset lies beyond the column height.   *)
(***************************************************************************)
C21_BreakTestsNaturalHeight ==
  page_layout.lpi > 0 =>
    \A j \in 1..Len(Placed) :
      LET before == IF j = 1 THEN 0 ELSE Placed[j - 1].ofs + LpiHeight
      IN  /\ Broke(j) <=>
               \/ before + pango_lines[j].logical_rect.height
                    >= PangoColumnHeight
               \/ (j > 1 /\ pango_lines[j - 1].formfeed)
          /\ Placed[j].ofs = IF Broke(j) THEN 0 ELSE before
          /\ Placed[j].y
               = 100 * (page_layout.top_margin + page_layout.header_sep
                        + TruncDiv(Placed[j].ofs + LpiHeight, PANGO_SCALE))

\* a line lower than 72 / lpi was placed below another line without a break
\* and its advanced offset is beyond the column height
C21_Witness ==
  /\ page_layout.lpi > 0
  /\ \E j \in 2..Len(Placed) :
       /\ pango_lines[j].logical_rect.height < LpiHeight
       /\ ~Broke(j)
       /\ Placed[j].ofs > 0
       /\ Placed[j].ofs + LpiHeight > PangoColumnHeight

(***************************************************************************)
(* C22.  For the left-to-right direction every line is drawn at            *)
(* x = left_margin + column_index * (column_width + gutter_width) and at   *)
(* y = top_margin + header_sep + offset before the line + height, where    *)
(* height is 72 / lpi when lpi > 0 and the natural height of the line      *)
(* otherwise (both sides compared in 1/100 point times PANGO_SCALE);       *)
(* after the placement the page index and the column index are those the   *)
(* line was drawn with and the offset has grown by exactly that height.    *)
(* draw_line_to_page divides the integer column_pos by PANGO_SCALE before  *)
(* it adds it, so the fraction of a point is lost: at 7 lpi the first line *)
(* is drawn 10pt below the top of the column, not 72/7pt, and without lpi  *)
(* a line 10.5pt tall is drawn 10pt below it.  TLC refutes the statement.  *)
(***************************************************************************)
C22_LinePositionAndAdvance ==
  page_layout.pango_dir # "RTL" =>
    /\ \A j \in 1..Len(Placed) :
         LET e == Placed[j]
             height == AdvanceHeight(pango_lines[e.line])
         IN  /\ e.x = 100 * (page_layout.left_margin
                             + e.column * (page_layout.column_width
                                           + page_layout.gutter_width))
             /\ (e.y - 100 * (page_layout.top_margin + page_layout.header_sep))
                  * PANGO_SCALE
                  = 100 * (e.ofs + height)
    /\ (pc = "loop" /\ Len(Placed) >= 1) =>
         LET e == Placed[Len(Placed)]
         IN  /\ page_idx = e.page
             /\ column_idx = e.column
             /\ column_y_pos = e.ofs + AdvanceHeight(pango_lines[e.line])

\* the separator draws, in call order
Separators == SelectSeq(out, LAMBDA e : e.op = "separator")

\* the breaks into a further column of the same page among the lines placed
ColumnBreaks ==
  {j \in 1..Len(Placed) : Broke(j) /\ Placed[j].page = SlotBefore(j)[1]}

\* the column index eject_column works with: mirrored for right-to-left
SeparatorColumn(e) ==
  IF page_layout.pango_dir = "RTL"
  THEN page_layout.num_columns - e.column ELSE e.column

(***************************************************************************)
(* C23 as stated: with the separation line enabled every column break      *)
(* draws one separator at the left edge of the column entered,             *)
(* x = left_margin + column_index * (column_width + gutter_width) for      *)
(* left-to-right, from top_margin + header_sep down to                     *)
(* page_height - bottom_margin; with it disabled nothing is drawn.         *)
(***************************************************************************)
C23_SeparatorAtColumnEdge ==
  /\ pc \in {"loop", "done"} =>
       Len(Separators)
         = (IF page_layout.do_separation_line
            THEN Cardinality(ColumnBreaks) ELSE 0)
  /\ \A k \in 1..Len(Separators) :
       LET e == Separators[k]
       IN  /\ page_layout.pango_dir # "RTL" =>
                e.x = 100 * (page_layout.left_margin
                             + e.column * (page_layout.column_width
                                           + page_layout.gutter_width))
           /\ e.y = 100 * (page_layout.top_margin + page_layout.header_sep)
           /\ e.bot = page_layout.page_height - 100 * page_layout.bottom_margin

(***************************************************************************)
(* C23 as amended: with the separation line enabled every column break     *)
(* draws one separator in the middle of the gutter before the column       *)
(* entered, x = left_margin + c * column_width + (c - 1/2) * gutter_width  *)
(* with c the column index (num_columns less the column index for          *)
(* right-to-left), from top_margin + header_height + header_sep / 2 down   *)
(* to page_height - bottom_margin - footer_height; with it disabled        *)
(* nothing is drawn.                                                       *)
(***************************************************************************)
C23_SeparatorInGutter ==
  /\ pc \in {"loop", "done"} =>
       Len(Separators)
         = (IF page_layout.do_separation_line
            THEN Cardinality(ColumnBreaks) ELSE 0)
  /\ \A k \in 1..Len(Separators) :
       LET e == Separators[k]
           c == SeparatorColumn(e)
       IN  /\ e.column \in 1..(page_layout.num_columns - 1)
           /\ e.x = 100 * (page_layout.left_margin
                           + c * page_layout.column_width)
                    + 50 * (2 * c - 1) * page_layout.gutter_width
           /\ e.y = 100 * (page_layout.top_margin + page_layout.header_height)
                    + 100 * (page_layout.header_sep \div 2)
           /\ e.bot = page_layout.page_height
                      - 100 * (page_layout.bottom_margin
                               + page_layout.footer_height)

\* a column break under a header has drawn its separator and the line after
\* it has been placed
C23_Witness ==
  /\ pc = "loop"
  /\ need_header
  /\ Len(Separators) = 1
  /\ Cardinality(ColumnBreaks) = 1
  /\ Separators[1].y > 100 * page_layout.top_margin

(***************************************************************************)
(* C24.  In the line stream returned by split_paragraphs_into_lines a line *)
(* carries the formfeed flag exactly when it is the final line of a        *)
(* paragraph that is marked form-feed-terminated: no earlier line of a     *)
(* wrapped paragraph and no line of an unmarked paragraph carries it.  The *)
(* stream lists the paragraphs in their order, every paragraph with at     *)
(* least one line, and the lines of a paragraph in their order.            *)
(***************************************************************************)
C24_FormfeedOnFinalLineOnly ==
  /\ \A j \in 1..Len(pango_lines) :
       /\ pango_lines[j].para \in 1..Len(paragraphs)
       /\ pango_lines[j].formfeed
            <=> (paragraphs[pango_lines[j].para].formfeed /\ LastOfParagraph(j))
       /\ IF j = 1
          THEN pango_lines[j].para = 1 /\ pango_lines[j].index = 0
          ELSE \/ /\ pango_lines[j].para = pango_lines[j - 1].para
                  /\ pango_lines[j].index = pango_lines[j - 1].index + 1
               \/ /\ pango_lines[j].para = pango_lines[j - 1].para + 1
                  /\ pango_lines[j].index = 0
  /\ pc \in {"scale", "output", "loop", "draw", "done"} =>
       IF paragraphs = << >> THEN pango_lines = << >>
       ELSE /\ pango_lines # << >>
            /\ pango_lines[Len(pango_lines)].para = Len(paragraphs)

\* the stream has been returned with a form-feed-terminated paragraph of two
\* lines, flagged on its second line only, and a paragraph after it
C24_Witness ==
  /\ pc = "scale"
  /\ \E j \in 2..Len(pango_lines) :
       /\ pango_lines[j].para = pango_lines[j - 1].para
       /\ paragraphs[pango_lines[j].para].formfeed
       /\ pango_lines[j].formfeed
       /\ ~pango_lines[j - 1].formfeed
       /\ j < Len(pango_lines)
       /\ ~pango_lines[j + 1].formfeed

\* a step of the scan that emits a paragraph and stays in the loop
EmitsAndGoesOn == pc = "split" /\ pc' = "split" /\ result' # result

(***************************************************************************)
(* C25.  With cpi > 0, word wrap on and column_width > 0 the scan of       *)
(* split_text_into_paragraphs makes progress on every iteration of its     *)
(* loop: an iteration that emits a paragraph or fragment and goes on       *)
(* starts the next paragraph further on in the buffer (the fragment has    *)
(* consumed at least one character or its delimiter), and an iteration     *)
(* that emits nothing moves the scan position on, whatever the budget.     *)
(* When the cut index of the rewrap is 0 (budget 0, or a first character   *)
(* wider than the budget) the code emits an empty fragment and resumes at  *)
(* the same place, for ever.  TLC refutes the statement.                   *)
(***************************************************************************)
C25_ScanMakesProgress ==
  [][ (/\ pc = "split"
       /\ pc' = "split"
       /\ UseCpi
       /\ ~page_layout.do_use_markup
       /\ page_layout.column_width > 0)
        => IF EmitsAndGoesOn
           THEN last_para' > last_para
           ELSE p' > p
    ]_vars

\* the line draws of the log are the first lines of the stream, each once
\* and in stream order
PlacedInOrder ==
  /\ Len(Placed) <= Len(pango_lines)
  /\ \A j \in 1..Len(Placed) : Placed[j].line = j

\* a line as high as the column or higher is placed at offset 0 of a column
\* slot entered by a break
TallLinesPlaced ==
  \A j \in 1..Len(Placed) :
    pango_lines[j].logical_rect.height >= PangoColumnHeight
      => Placed[j].ofs = 0 /\ Broke(j)

(***************************************************************************)
(* C26.  output_pages terminates on every line stream, and when it has     *)
(* returned it has issued exactly one line draw for every line of the      *)
(* stream, in stream order: at every moment the lines drawn are the first  *)
(* lines of the stream, none dropped, repeated or out of order, and a line *)
(* whose natural height is greater than or equal to the column height is   *)
(* placed all the same, at offset 0 after a break.                         *)
(***************************************************************************)
C26_TerminatesWithEveryLinePlaced ==
  /\ [](PlacedInOrder /\ TallLinesPlaced)
  /\ [](pc = "done" => Len(Placed) = Len(pango_lines))
  /\ <>[](pc = "done" /\ run = 2 /\ Len(Placed) = Len(pango_lines))

\* a run over three lines, one of them higher than the column, has returned
C26_Witness ==
  /\ pc = "done"
  /\ Len(pango_lines) = 3
  /\ Len(Placed) = 3
  /\ \E j \in 1..3 :
       /\ pango_lines[j].logical_rect.height > PangoColumnHeight
       /\ Placed[j].ofs = 0

\* the delimiters of the buffer: each closes a source paragraph
Delimiters == {q \in 1..Len(text) : text[q] \in {NL, FF}}

\* where the source paragraph closed by the delimiter at q begins
SourceStart(q) ==
  LET before == {b \in Boundaries : b < q}
  IN  IF before = {} THEN 1
      ELSE 1 + CHOOSE b \in before : \A c \in before : c <= b

\* the fragments emitted for the source paragraph closed at q: the
\* paragraphs of the list whose text begins inside it
FragmentsOf(q) ==
  {k \in 1..Len(paragraphs) :
     SourceStart(q) <= paragraphs[k].text /\ paragraphs[k].text <= q}

RECURSIVE Concat(_, _)
\* the texts of the paragraphs with indexes in F, in list order
Concat(list, F) ==
  IF F = {} THEN << >>
  ELSE LET k == CHOOSE i \in F : \A j \in F : i <= j
       IN  list[k].layout.text \o Concat(list, F \ {k})

\* no character of the buffer is wider than the budget
BudgetAdmitsEveryChar ==
  \A q \in 1..Len(text) : wcwidth(text[q]) <= Budget

(***************************************************************************)
(* C27.  Under CPI rewrap, with a budget that admits every character, the  *)
(* fragments emitted for a source paragraph, in order, concatenate to the  *)
(* text of the paragraph; a fragment carries the formfeed flag exactly     *)
(* when it is the last one and the paragraph is closed by a form feed; and *)
(* no fragment is empty unless the source paragraph is empty.  The code    *)
(* takes the rewrap branch when the paragraph has more characters than the *)
(* budget, also when its cells fit (a zero-width character), keeps the     *)
(* whole text as a fragment and then emits one more, empty, fragment at    *)
(* the delimiter: TLC refutes the statement.                               *)
(***************************************************************************)
C27_FragmentsRebuildParagraph ==
  (/\ pc = "lines"
   /\ UseCpi
   /\ ~page_layout.do_use_markup
   /\ ValidBuffer
   /\ BudgetAdmitsEveryChar)
    => \A q \in Delimiters :
         LET F == FragmentsOf(q)
         IN  /\ F # {}
             /\ Concat(paragraphs, F) = SubSeq(text, SourceStart(q), q - 1)
             /\ \A k \in F :
                  /\ paragraphs[k].formfeed
                       <=> (text[q] = FF /\ \A j \in F : j <= k)
                  /\ paragraphs[k].layout.text = << >>
                       => SourceStart(q) = q

\* some line has been placed in column c of page g
SlotUsed(g, c) ==
  \E j \in 1..Len(Placed) : Placed[j].page = g /\ Placed[j].column = c

\* every page started has a line in its first column, and every further
\* column that holds a line comes after a column that holds one: no page and
\* no column entered was left without a line
NoEmptySlot ==
  /\ \A k \in 1..Len(out) : out[k].op = "start_page" => SlotUsed(out[k].page, 0)
  /\ \A k \in 1..Len(out) :
       out[k].op = "separator" => SlotUsed(out[k].page, out[k].column)
  /\ \A j \in 1..Len(Placed) :
       /\ Placed[j].column < page_layout.num_columns
       /\ Placed[j].column > 0 => SlotUsed(Placed[j].page, Placed[j].column - 1)

(***************************************************************************)
(* C28 as stated: when output_pages has returned from a stream that is not *)
(* empty, whatever the column height, every page it started and every      *)
(* column it entered, the first column of page 1 included, holds at least  *)
(* one line.                                                               *)
(***************************************************************************)
C28_NoEmptyPageOrColumn ==
  (pc = "done" /\ pango_lines # << >>) => NoEmptySlot

(***************************************************************************)
(* C28 as amended: when output_pages has returned from a stream that is    *)
(* not empty and whose first line is lower than the column (its natural    *)
(* height is strictly less than column_height), every page it started and  *)
(* every column it entered holds at least one line.                        *)
(***************************************************************************)
C28_NoEmptySlotAfterFittingFirstLine ==
  (/\ pc = "done"
   /\ pango_lines # << >>
   /\ pango_lines[1].logical_rect.height < PangoColumnHeight)
    => NoEmptySlot

\* a run over two columns and two pages has returned, its first line lower
\* than the column and a later line moved on by a form feed
C28_Witness ==
  /\ pc = "done"
  /\ page_layout.num_columns = 2
  /\ page_idx = 2
  /\ pango_lines[1].logical_rect.height < PangoColumnHeight
  /\ pango_lines[1].formfeed
  /\ SlotUsed(1, 0) /\ SlotUsed(1, 1) /\ SlotUsed(2, 0)

\* lpi is unset and every line of the stream is lower than the column
EveryLineFitsColumn ==
  /\ page_layout.lpi = 0
  /\ \A j \in 1..Len(pango_lines) :
       pango_lines[j].logical_rect.height < PangoColumnHeight

(***************************************************************************)
(* C29.  With lpi unset and every line's natural height strictly less than *)
(* the column height, every line placed lies inside its column: its offset *)
(* plus its height, which is the column offset after the placement, is     *)
(* strictly less than the column height, for every stream, column count    *)
(* and pattern of form feeds.                                              *)
(***************************************************************************)
C29_PlacedLinesInsideColumn ==
  EveryLineFitsColumn =>
    /\ \A j \in 1..Len(Placed) :
         /\ Placed[j].ofs >= 0
         /\ Placed[j].ofs + pango_lines[j].logical_rect.height
              < PangoColumnHeight
    /\ pc \in {"loop", "draw", "done"} =>
         (0 <= column_y_pos /\ column_y_pos < PangoColumnHeight)

\* the second line, which would have filled the column exactly, has been
\* placed in the next one, and the third line below it
C29_Witness ==
  /\ EveryLineFitsColumn
  /\ Len(Placed) = 3
  /\ ~pango_lines[1].formfeed
  /\ OffsetBefore(2) + pango_lines[2].logical_rect.height = PangoColumnHeight
  /\ Broke(2)
  /\ ~Broke(3)
  /\ Placed[3].ofs > 0

\* the columns of the page
Columns == 0 .. (page_layout.num_columns - 1)

(***************************************************************************)
(* C30.  With num_columns >= 1, in every state of output_pages after its   *)
(* entry the page index is at least 1, the column index lies in            *)
(* 0 .. num_columns - 1 and the column offset is not negative; every line  *)
(* is drawn with such a cursor; the loop is entered at page 1, column 0,   *)
(* offset 0; and the column index handed to eject_column, with which the   *)
(* separator is drawn, lies in 1 .. num_columns - 1.                       *)
(***************************************************************************)
C30_CursorInRange ==
  page_layout.num_columns >= 1 =>
    /\ pc \in {"loop", "draw", "done"} =>
         /\ page_idx >= 1
         /\ column_idx \in Columns
         /\ column_y_pos >= 0
    /\ (pc = "loop" /\ pos = 1) =>
         page_idx = 1 /\ column_idx = 0 /\ column_y_pos = 0
    /\ \A k \in 1..Len(out) :
         /\ out[k].op = "line" =>
              /\ out[k].page >= 1
              /\ out[k].column \in Columns
              /\ out[k].ofs >= 0
         /\ out[k].op = "separator" =>
              /\ out[k].page >= 1
              /\ out[k].column \in Columns \ {0}

\* on two columns a separator has been drawn for column 1, a page break has
\* brought the cursor back to column 0 of page 2 and a line is placed there
C30_Witness ==
  /\ pc = "loop"
  /\ page_layout.num_columns = 2
  /\ page_idx = 2
  /\ column_idx = 0
  /\ column_y_pos > 0
  /\ \E k \in 1..Len(out) : out[k].op = "separator" /\ out[k].column = 1
  /\ out[Len(out)].op = "line"

\* the left edge, in 1/100 point, of the physical slot in which the lines of
\* logical column k are drawn
ColumnLeft(k) ==
  100 * SlotLeft(IF page_layout.pango_dir = "RTL"
                 THEN page_layout.num_columns - 1 - k ELSE k)

\* the gutter between the slots of logical columns k - 1 and k: the right
\* edge of the slot on the left and the left edge of the slot on the right
GutterLow(k) ==
  Min(ColumnLeft(k - 1), ColumnLeft(k)) + 100 * page_layout.column_width
GutterHigh(k) == Max(ColumnLeft(k - 1), ColumnLeft(k))

(***************************************************************************)
(* C31.  With two columns or more, in both text directions, the separator  *)
(* that eject_column draws on entering logical column k, 1 <= k <=         *)
(* num_columns - 1, lies inside the gutter between the physical slot of    *)
(* column k - 1 and that of column k, at the midpoint of that gutter; the  *)
(* slots are those the lines of the two columns are drawn in.  For         *)
(* right-to-left this is the position given by the mirrored index          *)
(* num_columns - k.                                                        *)
(***************************************************************************)
C31_SeparatorAtGutterMidpoint ==
  page_layout.num_columns >= 2 =>
    \A i \in 1..Len(out) :
      out[i].op = "separator" =>
        LET k == out[i].column
            x == out[i].x
        IN  /\ k \in 1..(page_layout.num_columns - 1)
            /\ GutterHigh(k) - GutterLow(k) = 100 * page_layout.gutter_width
            /\ GutterLow(k) < x /\ x < GutterHigh(k)
            /\ 2 * x = GutterLow(k) + GutterHigh(k)
            /\ page_layout.pango_dir = "RTL" =>
                 x = 100 * (page_layout.left_margin
                            + (page_layout.num_columns - k)
                                * page_layout.column_width)
                     + 50 * (2 * (page_layout.num_columns - k) - 1)
                          * page_layout.gutter_width
            /\ \A j \in 1..Len(out) :
                 (out[j].op = "line" /\ out[j].page = out[i].page
                  /\ out[j].column \in {k - 1, k})
                   => SlotOrigin(out[j]) = ColumnLeft(out[j].column)

\* right-to-left on three columns or more: the separators of columns 1 and 2
\* have been drawn, at different places, and all three columns hold a line
C31_Witness ==
  /\ page_layout.pango_dir = "RTL"
  /\ page_layout.num_columns >= 3
  /\ pc = "loop"
  /\ Len(Separators) = 2
  /\ Separators[1].column = 1
  /\ Separators[2].column = 2
  /\ Separators[2].x < Separators[1].x
  /\ SlotUsed(1, 0) /\ SlotUsed(1, 1) /\ SlotUsed(1, 2)

(***************************************************************************)
(* C32.  When the last character of the input file is a form feed, the     *)
(* run on plain text (no CPI rewrap is needed for the case) ends in the    *)
(* column and page that hold the last line                                 *)
(* of the paragraph closed by that form feed: that line is the last one    *)
(* placed, no paragraph begins after the form feed and no column or page   *)
(* is opened after it.  read_file adds a new line after the form feed, the *)
(* scan emits an empty paragraph for it, and output_pages places its empty *)
(* line in a further column or page: TLC refutes the statement.            *)
(***************************************************************************)
C32_TrailingFormfeedOpensNothing ==
  (/\ pc = "done"
   /\ file # << >>
   /\ file[Len(file)] = FF
   /\ ~page_layout.do_use_markup
   /\ ~UseCpi
   /\ ValidBuffer)
    => /\ \A k \in 1..Len(paragraphs) : paragraphs[k].text <= Len(file)
       /\ Len(Placed) >= 1
       /\ LET e == Placed[Len(Placed)]
          IN  /\ pango_lines[e.line].formfeed
              /\ StopOf(pango_lines[e.line].para) = Len(file)
              /\ page_idx = e.page
              /\ column_idx = e.column

====
